---- MODULE Spec2Model ----
(***************************************************************************)
(* Storage layer of the e-book reader: the path resolver (resolvePath),    *)
(* the native storage backend (nativeFileSystem) and the file-name helpers *)
(* of utils/book.ts, over a model of the host shell's file-system plugin;  *)
(* the selection of the application service (environment.ts); and the two  *)
(* pages: handleFileSelect of HomePage and the document handlers, the      *)
(* relocate handler and the request patch of FoliateViewer.                *)
(*                                                                         *)
(* A path string is the sequence of its "/"-separated segments, which is    *)
(* what split("/") returns: the empty string is <<"">>, "a/b" is            *)
(* <<"a", "b">>, "/a" is <<"", "a">>.  split and join are inverse, so the   *)
(* template literal `${a}/${b}` is a \o b.  A text is a sequence of         *)
(* one-character strings; a byte buffer a sequence of numbers in 0..255.   *)
(***************************************************************************)
EXTENDS Integers, Sequences, FiniteSets, TLC

VARIABLES
  store,         \* the host file system: location <<baseDir, fp>> -> entry
  written,       \* ghost: location -> the value the last successful writeFile stored
                 \*        there and whether the entry is intact since; a location
                 \*        leaves when its entry is removed
  created,       \* ghost: locations some backend operation has created so far
  last,          \* the last call of the storage layer and how it settled
  app,           \* environment.ts: the platform, the two module-level services and
                 \*                 the getAppService calls in flight
  os,            \* the platform-kind cache of nativeAppService.ts and what the
                 \*        detection sees
  home,          \* HomePage: loading, processingState and the runs of
                 \*        handleFileSelect
  page           \* library/page.tsx: the documents of a FoliateViewer, the input
                 \*        handlers on them, the views and the patched globals

vars == <<store, written, created, last, app, os, home, page>>

\* the state of the two pages
ui == <<home, page>>

----------------------------------------------------------------------------
(* Bounds of the model *)

\* at most this many entries are created in the host file system
MaxEntries == 2

\* getAppService is called this many times in one process
MaxCalls == 2

\* the platform kind is read this many times in one process
MaxReads == 3

\* handleFileSelect runs this many times, and the user picks at most this
\* many files in a run
MaxRuns == 2
MaxFiles == 1

\* the runs of handleFileSelect make this many calls of getAppService
MaxServiceCalls == 3

\* a viewer shows this many documents and gets this many load events
MaxDocs == 2
MaxLoads == 2

\* this many viewers, one per book key, are shown side by side, and a viewer
\* is mounted this many times
MaxViewers == 2
MaxMounts == 3

----------------------------------------------------------------------------
(* String literals *)

S_empty == <<"">>
S_library_json == <<"library.json">>
S_config_json == <<"config.json">>
S_cover_png == <<"cover.png">>
S_abc123 == <<"abc123">>

\* services/constants.ts is not part of the sources; the name is the one the
\* specification gives for the books subdirectory
LOCAL_BOOKS_SUBDIR == <<"local-books">>

\* the template literal `${a}/${b}`
Slash(a, b) == a \o b

\* BaseDirectory of the file-system plugin, by member name
BaseDirectory ==
  [AppConfig |-> "AppConfig", AppData |-> "AppData", AppCache |-> "AppCache",
   AppLog |-> "AppLog", Temp |-> "Temp"]

\* the BaseDir type of types/system
BaseDirs == {"Settings", "Data", "Cache", "Log", "Books", "None"}

\* values outside the BaseDir type, as an untyped caller can pass them
OtherBases == {"", "Other"}

----------------------------------------------------------------------------
(* utils/book.ts *)

getDir(book) == book.hash

getLibraryFilename == S_library_json

\* libs/document.ts is not part of the sources: the extension of each format
EXTS == [EPUB |-> "epub", PDF |-> "pdf", MOBI |-> "mobi"]

\* utils/misc.ts is not part of the sources: a safe file name has no "/", each
\* one in the title becomes "_"
RECURSIVE makeSafeFilename(_)
makeSafeFilename(title) ==
  IF Len(title) = 1 THEN title[1]
  ELSE title[1] \o "_" \o makeSafeFilename(Tail(title))

getFilename(book) ==
  Slash(book.hash, <<makeSafeFilename(book.title) \o "." \o EXTS[book.format]>>)

\* a mutant: the cover is named without the book's directory
getCoverFilename_NoDir(book) == S_cover_png

getCoverFilename(book) == Slash(book.hash, S_cover_png)

getConfigFilename(book) == Slash(book.hash, S_config_json)

INIT_BOOK_CONFIG == [updatedAt |-> 0]

\* the JSON text of a book config, as the specification's scenario writes it
ConfigText(config) ==
  <<"{", "\"", "u","p","d","a","t","e","d","A","t", "\"", ":", " ">>
    \o (IF config.updatedAt = 0 THEN <<"0">> ELSE <<"1">>) \o <<"}">>

Books == {[hash |-> S_abc123]}

----------------------------------------------------------------------------
(* resolvePath *)

\* a mutant: the Books case forgets the subdirectory prefix
resolvePath_NoPrefix(fp, base) ==
  CASE base = "Settings" -> [baseDir |-> BaseDirectory.AppConfig, fp |-> fp, base |-> base]
    [] base = "Data" -> [baseDir |-> BaseDirectory.AppData, fp |-> fp, base |-> base]
    [] base = "Cache" -> [baseDir |-> BaseDirectory.AppCache, fp |-> fp, base |-> base]
    [] base = "Log" -> [baseDir |-> BaseDirectory.AppLog, fp |-> fp, base |-> base]
    [] base = "Books" -> [baseDir |-> BaseDirectory.AppData, fp |-> fp, base |-> base]
    [] OTHER -> [baseDir |-> BaseDirectory.Temp, fp |-> fp, base |-> base]

\* a mutant: every category gets the subdirectory prefix
resolvePath_AlwaysPrefix(fp, base) ==
  [resolvePath_NoPrefix(fp, base) EXCEPT !.fp = Slash(LOCAL_BOOKS_SUBDIR, fp)]

\* a mutant: Cache and Log share the application-data root
resolvePath_DataRoot(fp, base) ==
  IF base \in {"Cache", "Log"}
    THEN [baseDir |-> BaseDirectory.AppData, fp |-> fp, base |-> base]
    ELSE IF base = "Books"
      THEN [baseDir |-> BaseDirectory.AppData,
            fp |-> Slash(LOCAL_BOOKS_SUBDIR, fp), base |-> base]
      ELSE resolvePath_NoPrefix(fp, base)

\* a mutant: the default case falls through to the application-data root
resolvePath_DefaultData(fp, base) ==
  IF base = "Books"
    THEN [baseDir |-> BaseDirectory.AppData,
          fp |-> Slash(LOCAL_BOOKS_SUBDIR, fp), base |-> base]
    ELSE IF base \in {"Settings", "Data", "Cache", "Log"}
      THEN resolvePath_NoPrefix(fp, base)
      ELSE [baseDir |-> BaseDirectory.AppData, fp |-> fp, base |-> base]

\* resolvePath, lines 74-97.  Its body names its two parameters and the
\* constants BaseDirectory and LOCAL_BOOKS_SUBDIR, nothing else: it reads no
\* variable and assigns none
resolvePath(fp, base) ==
  CASE base = "Settings" -> [baseDir |-> BaseDirectory.AppConfig, fp |-> fp, base |-> base]
    [] base = "Data" -> [baseDir |-> BaseDirectory.AppData, fp |-> fp, base |-> base]
    [] base = "Cache" -> [baseDir |-> BaseDirectory.AppCache, fp |-> fp, base |-> base]
    [] base = "Log" -> [baseDir |-> BaseDirectory.AppLog, fp |-> fp, base |-> base]
    [] base = "Books" ->
         [baseDir |-> BaseDirectory.AppData,
          fp |-> Slash(LOCAL_BOOKS_SUBDIR, fp), base |-> base]
    [] OTHER -> [baseDir |-> BaseDirectory.Temp, fp |-> fp, base |-> base]

----------------------------------------------------------------------------
(* JavaScript values *)

Str(chars) == [t |-> "string", v |-> chars]
Buf(bytes) == [t |-> "buffer", v |-> bytes]
Bool(b) == [t |-> "boolean", v |-> b]
Undefined == [t |-> "undefined"]
Err(kind) == [t |-> "error", v |-> kind]
Mode(mode) == [t |-> "mode", v |-> mode]
Location(r) == [t |-> "location", v |-> r]

\* Boolean(base): the empty string is the one falsy string
Truthy(base) == base # ""

\* `base && { baseDir, ... }`: the options object, or the falsy base itself,
\* in which case the plugin applies no base directory
NoBase == "NoBase"
Opts(base, baseDir) == IF Truthy(base) THEN baseDir ELSE NoBase

----------------------------------------------------------------------------
(* UTF-8, as writeTextFile encodes and readTextFile decodes *)

Alphabet ==
  {"h","e","l","o","{","}","\"","u","p","d","a","t","A",":"," ","0","1","U+00E9"}

REPLACEMENT == "U+FFFD"

CodePoint(c) ==
  CASE c = "h" -> 104 [] c = "e" -> 101 [] c = "l" -> 108 [] c = "o" -> 111
    [] c = "{" -> 123 [] c = "}" -> 125 [] c = "\"" -> 34 [] c = "u" -> 117
    [] c = "p" -> 112 [] c = "d" -> 100 [] c = "a" -> 97  [] c = "t" -> 116
    [] c = "A" -> 65  [] c = ":" -> 58  [] c = " " -> 32  [] c = "0" -> 48
    [] c = "1" -> 49  [] c = "U+00E9" -> 233

CharOf(cp) ==
  IF \E c \in Alphabet : CodePoint(c) = cp
    THEN CHOOSE c \in Alphabet : CodePoint(c) = cp
    ELSE REPLACEMENT

RECURSIVE Utf8Encode(_)
Utf8Encode(chars) ==
  IF chars = <<>> THEN <<>>
  ELSE LET cp == CodePoint(Head(chars)) IN
       (IF cp < 128 THEN <<cp>> ELSE <<192 + (cp \div 64), 128 + (cp % 64)>>)
         \o Utf8Encode(Tail(chars))

RECURSIVE Utf8Decode(_)
Utf8Decode(bytes) ==
  IF bytes = <<>> THEN <<>>
  ELSE LET b == Head(bytes) IN
       IF b < 128 THEN <<CharOf(b)>> \o Utf8Decode(Tail(bytes))
       ELSE IF b >= 194 /\ b < 224 /\ Len(bytes) >= 2
               /\ bytes[2] >= 128 /\ bytes[2] < 192
         THEN <<CharOf((b - 192) * 64 + (bytes[2] - 128))>>
                \o Utf8Decode(Tail(Tail(bytes)))
         ELSE <<REPLACEMENT>> \o Utf8Decode(Tail(bytes))

----------------------------------------------------------------------------
(* Paths of the host file system *)

\* the empty path names the base directory itself
IsBase(fp) == fp = S_empty

\* the directory part of fp; the empty path when fp has a single segment
ParentPath(fp) == IF Len(fp) <= 1 THEN S_empty ELSE SubSeq(fp, 1, Len(fp) - 1)

\* fp and the directories above it, up to the base directory
Ancestors(fp) == IF IsBase(fp) THEN {} ELSE {SubSeq(fp, 1, n) : n \in 1..Len(fp)}

IsPrefixPath(dir, fp) == dir \in Ancestors(fp)

EndsWith(s, suffix) ==
  Len(s) >= Len(suffix) /\ SubSeq(s, Len(s) - Len(suffix) + 1, Len(s)) = suffix

\* the plugin refuses every path with a parent-directory component
Forbidden(fp) == \E i \in 1..Len(fp) : fp[i] = ".."

----------------------------------------------------------------------------
(* The file-system plugin: each primitive maps a store to an outcome      *)
(*   [raised, value, store]                                               *)

IsDir(st, loc) == loc \in DOMAIN st /\ st[loc].isDir
IsFile(st, loc) == loc \in DOMAIN st /\ ~st[loc].isDir
DirEntry == [isDir |-> TRUE, data |-> <<>>]
FileEntry(bytes) == [isDir |-> FALSE, data |-> bytes]

\* the base directories themselves always exist
DirExists(st, root, fp) == IsBase(fp) \/ IsDir(st, <<root, fp>>)

Put(st, loc, entry) == [l \in DOMAIN st \cup {loc} |-> IF l = loc THEN entry ELSE st[l]]
Drop(st, locs) == [l \in DOMAIN st \ locs |-> st[l]]

Children(st, root, fp) ==
  {l \in DOMAIN st : l[1] = root /\ ~IsBase(l[2]) /\ ParentPath(l[2]) = fp}
Subtree(st, root, fp) ==
  {l \in DOMAIN st : l[1] = root /\ IsPrefixPath(fp, l[2])}

Raise(st, kind) == [raised |-> TRUE, value |-> Err(kind), store |-> st]
Return(st, value) == [raised |-> FALSE, value |-> value, store |-> st]

plugin_exists(st, fp, root) ==
  IF Forbidden(fp) THEN Raise(st, "forbidden path")
  ELSE Return(st, Bool(IsBase(fp) \/ <<root, fp>> \in DOMAIN st))

plugin_readFile(st, fp, root) ==
  IF Forbidden(fp) THEN Raise(st, "forbidden path")
  ELSE IF ~IsFile(st, <<root, fp>>) THEN Raise(st, "NotFound")
  ELSE Return(st, Buf(st[<<root, fp>>].data))

plugin_readTextFile(st, fp, root) ==
  IF Forbidden(fp) THEN Raise(st, "forbidden path")
  ELSE IF ~IsFile(st, <<root, fp>>) THEN Raise(st, "NotFound")
  ELSE Return(st, Str(Utf8Decode(st[<<root, fp>>].data)))

plugin_writeFile(st, fp, bytes, root) ==
  IF Forbidden(fp) THEN Raise(st, "forbidden path")
  ELSE IF IsBase(fp) \/ IsDir(st, <<root, fp>>) THEN Raise(st, "IsADirectory")
  ELSE IF ~DirExists(st, root, ParentPath(fp)) THEN Raise(st, "NotFound")
  ELSE Return(Put(st, <<root, fp>>, FileEntry(bytes)), Undefined)

plugin_writeTextFile(st, fp, chars, root) ==
  plugin_writeFile(st, fp, Utf8Encode(chars), root)

plugin_mkdir(st, fp, root, recursive) ==
  IF Forbidden(fp) THEN Raise(st, "forbidden path")
  ELSE IF recursive
    THEN IF \E a \in Ancestors(fp) : IsFile(st, <<root, a>>)
           THEN Raise(st, "NotADirectory")
           ELSE Return([l \in DOMAIN st \cup {<<root, a>> : a \in Ancestors(fp)} |->
                          IF l \in DOMAIN st THEN st[l] ELSE DirEntry], Undefined)
    ELSE IF IsBase(fp) \/ <<root, fp>> \in DOMAIN st THEN Raise(st, "AlreadyExists")
    ELSE IF ~DirExists(st, root, ParentPath(fp)) THEN Raise(st, "NotFound")
    ELSE Return(Put(st, <<root, fp>>, DirEntry), Undefined)

plugin_remove(st, fp, root, recursive) ==
  IF Forbidden(fp) THEN Raise(st, "forbidden path")
  ELSE IF <<root, fp>> \notin DOMAIN st THEN Raise(st, "NotFound")
  ELSE IF IsFile(st, <<root, fp>>) THEN Return(Drop(st, {<<root, fp>>}), Undefined)
  ELSE IF recursive THEN Return(Drop(st, Subtree(st, root, fp)), Undefined)
  ELSE IF Children(st, root, fp) # {} THEN Raise(st, "DirectoryNotEmpty")
  ELSE Return(Drop(st, {<<root, fp>>}), Undefined)

\* every way to list the elements of a finite set once each
Orderings(S) ==
  {s \in [1..Cardinality(S) -> S] : \A i, j \in 1..Cardinality(S) : s[i] = s[j] => i = j}

\* the entries of a directory; the plugin promises no order, so `order` is the
\* listing of the children it happens to produce
plugin_readDir(st, fp, root, order) ==
  IF Forbidden(fp) THEN Raise(st, "forbidden path")
  ELSE IF ~DirExists(st, root, fp) THEN Raise(st, "NotFound")
  ELSE Return(st, [t |-> "entries",
                   v |-> [i \in 1..Len(order) |->
                            [name |-> order[i][2][Len(order[i][2])],
                             isDirectory |-> st[order[i]].isDir,
                             isFile |-> ~st[order[i]].isDir]]])

\* the source carries no base directory; the destination carries toPathBaseDir
plugin_copyFile(st, src, fp, root) ==
  IF Forbidden(src) \/ Forbidden(fp) THEN Raise(st, "forbidden path")
  ELSE IF ~IsFile(st, <<NoBase, src>>) THEN Raise(st, "NotFound")
  ELSE IF IsBase(fp) \/ IsDir(st, <<root, fp>>) THEN Raise(st, "IsADirectory")
  ELSE IF ~DirExists(st, root, ParentPath(fp)) THEN Raise(st, "NotFound")
  ELSE Return(Put(st, <<root, fp>>, FileEntry(st[<<NoBase, src>>].data)), Undefined)

\* utils/misc.ts is not part of the sources: a fully-qualified URL is a scheme,
\* "//" and a host, with or without a path after it
Schemes == {"https:", "http:", "blob:", "asset:"}
isValidURL(path) ==
  Len(path) >= 3 /\ path[1] \in Schemes /\ path[2] = "" /\ path[3] # ""

\* encodeURIComponent of a path: every "/" becomes "%2F"
RECURSIVE encodeURIComponent(_)
encodeURIComponent(path) ==
  IF Len(path) = 1 THEN path[1]
  ELSE path[1] \o "%2F" \o encodeURIComponent(Tail(path))

\* convertFileSrc (@tauri-apps/api/core): asset://localhost/<encoded path>;
\* it goes through the internals the host shell injects into the window and
\* throws where they are absent
plugin_convertFileSrc(st, path, internals) ==
  IF ~internals THEN Raise(st, "TypeError")
  ELSE Return(st, Str(<<"asset:", "", "localhost", encodeURIComponent(path)>>))

\* URL.createObjectURL(new Blob([content])): an object URL for these bytes
ObjectURL(bytes) == [t |-> "objectURL", v |-> bytes]

----------------------------------------------------------------------------
(* nativeFileSystem: each operation maps a store to how its promise settles *)
(*   [status, value, store, raised, invoked, calls]                         *)
(* raised: the plugin primitive threw; invoked: the primitives the          *)
(* operation called, with their arguments; calls: how many                  *)

NoSrc == <<>>

Settle(out) ==
  [status |-> IF out.raised THEN "rejected" ELSE "fulfilled",
   value |-> out.value, store |-> out.store, raised |-> out.raised,
   invoked |-> <<>>, calls |-> 1]

\* the operation called primitive prim with these arguments and got out
Invoke(prim, src, fp, root, out) ==
  [Settle(out) EXCEPT !.invoked = <<[prim |-> prim, src |-> src, fp |-> fp, root |-> root]>>]

\* the target of an operation in the host file system
Target(path, base) ==
  LET r == resolvePath(path, base) IN <<Opts(base, r.baseDir), r.fp>>

\* a mutant: the catch block rethrows
fs_exists_Rethrow(st, path, base) ==
  LET r == resolvePath(path, base)
      root == Opts(base, r.baseDir)
  IN  Invoke("exists", NoSrc, r.fp, root, plugin_exists(st, r.fp, root))

\* a mutant: the check looks at the unresolved path under the application-data root
fs_exists_Unresolved(st, path, base) ==
  LET out == Invoke("exists", NoSrc, path, BaseDirectory.AppData,
                    plugin_exists(st, path, BaseDirectory.AppData))
  IN  IF out.raised
        THEN [out EXCEPT !.status = "fulfilled", !.value = Bool(FALSE)]
        ELSE out

fs_exists(st, path, base) ==
  LET r == resolvePath(path, base)
      root == Opts(base, r.baseDir)
      out == Invoke("exists", NoSrc, r.fp, root, plugin_exists(st, r.fp, root))
  IN  IF out.raised
        THEN [out EXCEPT !.status = "fulfilled", !.value = Bool(FALSE)]
        ELSE out

\* a mutant: the mode test is inverted
fs_readFile_ModeSwapped(st, path, base, mode) ==
  LET r == resolvePath(path, base)
      root == Opts(base, r.baseDir)
  IN  IF mode # "text"
        THEN Invoke("readTextFile", NoSrc, r.fp, root, plugin_readTextFile(st, r.fp, root))
        ELSE Invoke("readFile", NoSrc, r.fp, root, plugin_readFile(st, r.fp, root))

fs_readFile(st, path, base, mode) ==
  LET r == resolvePath(path, base)
      root == Opts(base, r.baseDir)
  IN  IF mode = "text"
        THEN Invoke("readTextFile", NoSrc, r.fp, root, plugin_readTextFile(st, r.fp, root))
        ELSE Invoke("readFile", NoSrc, r.fp, root, plugin_readFile(st, r.fp, root))

\* a mutant: a byte buffer loses its last byte on the way to the plugin
fs_writeFile_Truncating(st, path, base, content) ==
  LET r == resolvePath(path, base)
      root == Opts(base, r.baseDir)
  IN  IF content.t = "string"
        THEN Invoke("writeTextFile", NoSrc, r.fp, root,
                    plugin_writeTextFile(st, r.fp, content.v, root))
        ELSE Invoke("writeFile", NoSrc, r.fp, root,
                    plugin_writeFile(st, r.fp, SubSeq(content.v, 1, Len(content.v) - 1), root))

\* a mutant: the write skips the resolver and uses the path as given
fs_writeFile_Unresolved(st, path, base, content) ==
  LET r == resolvePath(path, base)
      root == Opts(base, r.baseDir)
  IN  IF content.t = "string"
        THEN Invoke("writeTextFile", NoSrc, path, root,
                    plugin_writeTextFile(st, path, content.v, root))
        ELSE Invoke("writeFile", NoSrc, path, root,
                    plugin_writeFile(st, path, content.v, root))

\* a mutant: the write first creates the missing parent directories
fs_writeFile_MkdirParent(st, path, base, content) ==
  LET r == resolvePath(path, base)
      root == Opts(base, r.baseDir)
      made == plugin_mkdir(st, ParentPath(r.fp), root, TRUE)
      st2 == IF made.raised THEN st ELSE made.store
  IN  IF content.t = "string"
        THEN Invoke("writeTextFile", NoSrc, r.fp, root,
                    plugin_writeTextFile(st2, r.fp, content.v, root))
        ELSE Invoke("writeFile", NoSrc, r.fp, root,
                    plugin_writeFile(st2, r.fp, content.v, root))

fs_writeFile(st, path, base, content) ==
  LET r == resolvePath(path, base)
      root == Opts(base, r.baseDir)
  IN  IF content.t = "string"
        THEN Invoke("writeTextFile", NoSrc, r.fp, root,
                    plugin_writeTextFile(st, r.fp, content.v, root))
        ELSE Invoke("writeFile", NoSrc, r.fp, root,
                    plugin_writeFile(st, r.fp, content.v, root))

\* a mutant: a failed removal is swallowed, as for an idempotent delete
fs_removeFile_Swallow(st, path, base) ==
  LET r == resolvePath(path, base)
      root == Opts(base, r.baseDir)
      out == Invoke("remove", NoSrc, r.fp, root, plugin_remove(st, r.fp, root, FALSE))
  IN  IF out.raised
        THEN [out EXCEPT !.status = "fulfilled", !.value = Undefined]
        ELSE out

fs_removeFile(st, path, base) ==
  LET r == resolvePath(path, base)
      root == Opts(base, r.baseDir)
  IN  Invoke("remove", NoSrc, r.fp, root, plugin_remove(st, r.fp, root, FALSE))

\* a mutant: the recursive flag is not passed on
fs_createDir_NotRecursive(st, path, base, recursive) ==
  LET r == resolvePath(path, base)
      root == Opts(base, r.baseDir)
  IN  Invoke("mkdir", NoSrc, r.fp, root, plugin_mkdir(st, r.fp, root, FALSE))

fs_createDir(st, path, base, recursive) ==
  LET r == resolvePath(path, base)
      root == Opts(base, r.baseDir)
  IN  Invoke("mkdir", NoSrc, r.fp, root,
             plugin_mkdir(st, r.fp, root, Truthy(base) /\ recursive))

\* a mutant: a failed removal is tried once more
fs_removeDir_Retry(st, path, base, recursive) ==
  LET r == resolvePath(path, base)
      root == Opts(base, r.baseDir)
      out == Invoke("remove", NoSrc, r.fp, root,
                    plugin_remove(st, r.fp, root, Truthy(base) /\ recursive))
  IN  IF out.raised
        THEN [out EXCEPT !.invoked = out.invoked \o out.invoked, !.calls = 2]
        ELSE out

fs_removeDir(st, path, base, recursive) ==
  LET r == resolvePath(path, base)
      root == Opts(base, r.baseDir)
  IN  Invoke("remove", NoSrc, r.fp, root,
             plugin_remove(st, r.fp, root, Truthy(base) /\ recursive))

\* list.map(entity => ({ path: entity.name, isDir: entity.isDirectory }))
MapEntries(list) ==
  [i \in 1..Len(list) |-> [path |-> list[i].name, isDir |-> list[i].isDirectory]]

\* a mutant: directories are left out of the listing
fs_readDir_FilesOnly(st, path, base, order) ==
  LET r == resolvePath(path, base)
      root == Opts(base, r.baseDir)
      out == Invoke("readDir", NoSrc, r.fp, root, plugin_readDir(st, r.fp, root, order))
  IN  IF out.raised THEN out
      ELSE [out EXCEPT !.value =
             [t |-> "entries",
              v |-> MapEntries(SelectSeq(out.value.v, LAMBDA e : ~e.isDirectory))]]

fs_readDir(st, path, base, order) ==
  LET r == resolvePath(path, base)
      root == Opts(base, r.baseDir)
      out == Invoke("readDir", NoSrc, r.fp, root, plugin_readDir(st, r.fp, root, order))
  IN  IF out.raised THEN out
      ELSE [out EXCEPT !.value = [t |-> "entries", v |-> MapEntries(out.value.v)]]

\* a mutant: the source goes through the resolver like the destination
fs_copyFile_ResolveSrc(st, srcPath, dstPath, base) ==
  LET r == resolvePath(dstPath, base)
      root == Opts(base, r.baseDir)
      rs == resolvePath(srcPath, base)
  IN  Invoke("copyFile", rs.fp, r.fp, root, plugin_copyFile(st, rs.fp, r.fp, root))

fs_copyFile(st, srcPath, dstPath, base) ==
  LET r == resolvePath(dstPath, base)
      root == Opts(base, r.baseDir)
  IN  Invoke("copyFile", srcPath, r.fp, root, plugin_copyFile(st, srcPath, r.fp, root))

\* a mutant: the URL test is inverted
fs_getURL_Swapped(st, path, internals) ==
  IF ~isValidURL(path) THEN Settle(Return(st, Str(path)))
  ELSE Invoke("convertFileSrc", NoSrc, path, NoBase, plugin_convertFileSrc(st, path, internals))

\* getURL is synchronous: fulfilled stands for a return, rejected for a throw
fs_getURL(st, path, internals) ==
  IF isValidURL(path) THEN [Settle(Return(st, Str(path))) EXCEPT !.calls = 0]
  ELSE Invoke("convertFileSrc", NoSrc, path, NoBase, plugin_convertFileSrc(st, path, internals))

fs_getBlobURL(st, path, base) ==
  LET content == fs_readFile(st, path, base, "binary")
  IN  IF content.status = "rejected" THEN content
      ELSE [content EXCEPT !.value = ObjectURL(content.value.v)]

----------------------------------------------------------------------------
(* Inputs *)

S_forbidden == <<"..", "x">>
S_picked == <<"", "in.epub">>
S_absolute == <<"", "tmp", "x">>

\* relative paths the library code passes to the backend
Paths ==
  {getLibraryFilename} \cup {getDir(b) : b \in Books}
    \cup {getConfigFilename(b) : b \in Books} \cup {S_forbidden}

\* categories the backend operations are called with
BackendBases == {"Data", "Books"}

\* the (path, category) pairs the backend is called with: the manifest and a
\* path the platform refuses under Data, a book's directory under both
\* categories, the book's config under Books
Requests ==
  {<<getLibraryFilename, "Data">>, <<S_forbidden, "Data">>}
    \cup {<<getDir(b), base>> : b \in Books, base \in BackendBases}
    \cup {<<getConfigFilename(b), "Books">> : b \in Books}

\* values written: a text and a byte buffer that is not valid UTF-8
Contents == {Str(ConfigText(INIT_BOOK_CONFIG)), Buf(<<255, 104>>)}

\* the file the user picked, outside every base directory
SrcPaths == {S_picked}

\* paths and categories resolvePath is called with
ResolvePaths == Paths \cup {S_empty, S_absolute}
ResolveBases == BaseDirs \cup OtherBases

\* paths and categories of the URL operations: a cover already on the web,
\* a book's cover file, and a path the platform refuses
S_remote == <<"https:", "", "example.com", "cover.png">>
URLPaths == {S_remote, S_forbidden} \cup {getCoverFilename(b) : b \in Books}
BlobBases == {"None", "Books"}

\* a smaller backend for the runs that compare resolutions
QuietPaths == {getLibraryFilename}
QuietBases == {"Data", "Books"}

----------------------------------------------------------------------------
(* environment.ts: getAppService *)

\* a service instance is numbered in the order of construction; 0 is null.
\* What a call resolved with: the kind and number of the instance, and
\* whether, when the call resolved, the instance had completed its
\* loadSettings (loaded) or had failed it (broken)
None == [kind |-> "none", id |-> 0, loaded |-> FALSE, broken |-> FALSE]
Rejected == [kind |-> "error", id |-> 0, loaded |-> FALSE, broken |-> FALSE]

\* a call: where it is, and for the record whether the native initialization
\* failed in it (nfail) and how many web initializations failed in it (wfail)
Idle == [pc |-> "idle", stage |-> "", inst |-> 0, ret |-> None, nfail |-> FALSE, wfail |-> 0]

\* call c is at pc, awaiting for stage, with instance inst in its hands
At(a, c, pc, stage, inst) ==
  [a EXCEPT !.calls[c] = [@ EXCEPT !.pc = pc, !.stage = stage, !.inst = inst]]

\* call c resolves with the instance id of this kind
Done(a, c, kind, id) ==
  [a EXCEPT !.calls[c] =
     [@ EXCEPT !.pc = "done", !.stage = "", !.inst = 0,
               !.ret = [kind |-> kind, id |-> id, loaded |-> id \in a.loaded,
                        broken |-> id \in a.broken]]]

\* call c is rejected
Failed(a, c) ==
  [a EXCEPT !.calls[c] = [@ EXCEPT !.pc = "done", !.stage = "", !.inst = 0,
                                   !.ret = Rejected]]

\* process.env['NEXT_PUBLIC_APP_PLATFORM'] === 'tauri'
isTauriAppPlatform(a) == a.platform = "tauri"

\* built: the kinds of the instances constructed so far, in order
AppStart(platform) ==
  [platform |-> platform, nativeAppService |-> 0, webAppService |-> 0,
   made |-> 0, built |-> <<>>, loaded |-> {}, broken |-> {},
   calls |-> [c \in 1..MaxCalls |-> Idle]]

\* a mutant: the catch block of getNativeAppService rethrows
getWebAppService_Rethrow(a, c, stage) ==
  IF stage = "inner" THEN Failed(a, c)
  ELSE IF a.webAppService = 0 THEN At(a, c, "w_import", stage, 0)
  ELSE Done(a, c, "web", a.webAppService)

\* getWebAppService up to its first await; stage tells which caller awaits it:
\* "inner" is the catch block of getNativeAppService, "outer" is getAppService
getWebAppService(a, c, stage) ==
  IF a.webAppService = 0
    THEN At(a, c, "w_import", stage, 0)
    ELSE Done(a, c, "web", a.webAppService)

\* getWebAppService threw.  When the failure came through
\* getNativeAppService (line 40) the rejection travels to the await of line
\* 60, whose catch block runs in a later turn of the microtask queue: the
\* call waits at "caught".  Otherwise the call is rejected.
webFailed(a, c) ==
  LET a1 == [a EXCEPT !.calls[c].wfail = @ + 1]
  IN  IF a.calls[c].stage = "inner"
        THEN At(a1, c, "caught", "inner", 0)
        ELSE Failed(a1, c)

\* the catch block of getAppService (lines 61-63): getWebAppService once more
catchGetAppService(a, c) == getWebAppService(a, c, "outer")

\* the try block of getNativeAppService threw: its catch block returns
\* getWebAppService()
nativeFailed(a, c) ==
  getWebAppService([a EXCEPT !.calls[c].nfail = TRUE], c, "inner")

\* getNativeAppService up to its first await
getNativeAppService(a, c) ==
  IF a.nativeAppService = 0
    THEN At(a, c, "n_import", "", 0)
    ELSE Done(a, c, "native", a.nativeAppService)

\* getAppService up to its first await
getAppService(a, c) ==
  IF isTauriAppPlatform(a) THEN getNativeAppService(a, c)
  ELSE getWebAppService(a, c, "outer")

----------------------------------------------------------------------------
(* nativeAppService.ts: platform kind *)

\* userAgent.indexOf(token) !== -1, the user agent being the set of the
\* tokens it contains
Includes(userAgent, token) == token \in userAgent

\* process.env['NEXT_PUBLIC_APP_PLATFORM'] === 'tauri'
isTauriApp(e) == e.isTauri

getOSType(e) ==
  IF ~isTauriApp(e)
    THEN IF e.hasNavigator
           THEN IF Includes(e.userAgent, "Win") THEN "windows"
                ELSE IF Includes(e.userAgent, "Mac") THEN "macos"
                ELSE IF Includes(e.userAgent, "Linux") THEN "linux"
                ELSE IF Includes(e.userAgent, "Android") THEN "android"
                ELSE IF Includes(e.userAgent, "iPhone") \/ Includes(e.userAgent, "iPad")
                  THEN "ios"
                ELSE "unknown"
           ELSE "unknown"
    ELSE IF e.osType = "throws" THEN "unknown" ELSE e.osType

\* what osType() of the host answers, or that it throws
OSTypes == {"macos", "android", "ios", "throws"}

\* user agents by the tokens in them: a desktop Windows, a desktop Mac, an
\* Android phone (its user agent names Linux too), an iPhone (its user agent
\* says "like Mac OS X"), an iPad requesting the desktop site, none of them
UserAgents ==
  {{"Win"}, {"Mac"}, {"Linux", "Android"}, {"iPhone", "Mac"}, {"iPad"}, {}}

\* a mutant: the detection runs at every read
getOS_TYPE_Uncached(o) ==
  [value |-> getOSType(o),
   os |-> [o EXCEPT !.cachedOSType = getOSType(o),
                    !.detections = @ + 1,
                    !.first = IF o.detections = 0 THEN getOSType(o) ELSE @]]

\* getOS_TYPE(): the value read and the state it leaves
getOS_TYPE(o) ==
  IF o.cachedOSType = "null"
    THEN [value |-> getOSType(o),
          os |-> [o EXCEPT !.cachedOSType = getOSType(o),
                           !.detections = @ + 1,
                           !.first = IF o.detections = 0 THEN getOSType(o) ELSE @]]
    ELSE [value |-> o.cachedOSType, os |-> o]

\* get isMobile() (line 169): one read of the platform kind; the answer and
\* the state the read leaves
isMobile(o) ==
  LET r == getOS_TYPE(o)
  IN  [value |-> r.value \in {"android", "ios"},
       os |-> [r.os EXCEPT !.reads = @ + 1, !.read = r.value,
                           !.fresh = getOSType(o)]]

\* the module when loaded: nothing cached, nothing detected, nothing read
OsStart(isTauri, hasNavigator, userAgent, osType) ==
  [isTauri |-> isTauri, hasNavigator |-> hasNavigator, userAgent |-> userAgent,
   osType |-> osType, cachedOSType |-> "null", detections |-> 0, first |-> "null",
   reads |-> 0, read |-> "null", fresh |-> "null"]

----------------------------------------------------------------------------
(* HomePage: handleFileSelect *)

\* a run of handleFileSelect: where it is; the files selected and those left
\* to import; bookIds; how many loadLibraryBooks, importBook and
\* saveLibraryBooks calls it made; the argument navigateToReader got from it;
\* whether its last update of loading and processingState was the reset to
\* (false, ''); whether another run started while it ran; loading and
\* processingState as they were when it completed; which picker gave the
\* files and how the user was told of an error; call: the call of
\* envConfig.getAppService() it awaits or awaited last
NoRun ==
  [pc |-> "idle", call |-> 0, files |-> 0, left |-> 0, bookIds |-> <<>>,
   picker |-> "", told |-> "",
   loads |-> 0, imports |-> 0, saves |-> 0, navigated |-> <<>>,
   reset |-> FALSE, overlapped |-> FALSE,
   endLoading |-> FALSE, endProcessingState |-> "running"]

\* a run that completed before the latest click: nothing of it is kept
Over == [NoRun EXCEPT !.pc = "over"]

\* the hash of the book in the i-th selected file
FileHash(i) == <<S_abc123, <<"0f3e">>, <<"d41d8cd9">>>>[i]

HomeStart == [loading |-> FALSE, processingState |-> "", runs |-> [r \in 1..MaxRuns |-> NoRun]]

\* setLoading and setProcessingState by run r
SetState(h, r, loading, processingState, reset) ==
  [h EXCEPT !.loading = loading, !.processingState = processingState,
            !.runs[r].reset = reset]

\* run r moves on to pc
Goto(h, r, pc) == [h EXCEPT !.runs[r].pc = pc]

\* run r returns: the promise of handleFileSelect is fulfilled
Completes(h, r) ==
  [h EXCEPT !.runs[r].pc = "done",
            !.runs[r].endLoading = h.loading,
            !.runs[r].endProcessingState = h.processingState]

\* envConfig is the default export of environment.ts: the number the next
\* call of getAppService gets
NextCall(a) == 1 + Cardinality({c \in DOMAIN a.calls : a.calls[c].pc # "idle"})

\* the awaiter of call c took its result: nothing of the call is kept
Taken(a, c) == [a EXCEPT !.calls[c] = [Idle EXCEPT !.pc = "taken"]]

\* run r awaits call c of getAppService
Awaits(h, r, pc, c) == [Goto(h, r, pc) EXCEPT !.runs[r].call = c]

\* the catch block of handleFileSelect up to its await of call c
Catch(h, r, c) == Awaits(SetState(h, r, FALSE, "", TRUE), r, "message", c)

\* a mutant: an empty selection does not return early
afterSelect_NoEarlyReturn(h, r, n, picker) ==
  Goto(SetState([h EXCEPT !.runs[r].files = n, !.runs[r].picker = picker],
                r, TRUE, "Loading book data...", FALSE),
       r, "load")

\* lines 51-59, after the picker gave n files
afterSelect(h, r, n, picker) ==
  IF n = 0
    THEN Completes(SetState([h EXCEPT !.runs[r].files = 0, !.runs[r].picker = picker],
                            r, FALSE, "", TRUE), r)
    ELSE Goto(SetState([h EXCEPT !.runs[r].files = n, !.runs[r].picker = picker],
                       r, TRUE, "Loading book data...", FALSE),
              r, "load")

\* lines 75-78, after the loop over the selected files
afterImports(h, r) ==
  Goto(SetState(h, r, TRUE, "Saving book data...", FALSE), r, "save")

\* lines 80-87, after saveLibraryBooks
afterSave(h, r) ==
  IF Len(h.runs[r].bookIds) > 0
    THEN Completes([SetState(h, r, TRUE, "Opening book...", FALSE)
                      EXCEPT !.runs[r].navigated = h.runs[r].bookIds], r)
    ELSE Completes(SetState(h, r, FALSE, "", TRUE), r)

----------------------------------------------------------------------------
(* library/page.tsx: FoliateViewer *)

\* An element of a document's body: its local name, its id, class and alt
\* attributes, its text, and how many <img alt="Book cover image">
\* fixCoverImages put inside it.  The container injectCoverImage builds
\* holds its own <img alt="Book Cover"> besides.
El(tag, id, class, alt, text, imgs) ==
  [tag |-> tag, id |-> id, class |-> class, alt |-> alt, text |-> text, imgs |-> imgs]

COVER_ID == "booktalk-injected-cover"

E_style == El("style", "", "", "", "body { margin: 0 }", 0)
E_p == El("p", "", "", "", "Chapter one.", 0)
E_discover == El("p", "", "", "", "They ran to discover it.", 0)
E_div == El("div", "", "", "", "", 0)
E_cover == El("div", "cover", "", "", "", 0)
E_classCover == El("div", "", "cover", "", "", 0)
E_photo == El("img", "", "", "A photo", "", 0)
E_img == El("img", "", "", "Book cover image", "", 0)
E_injected == El("div", COVER_ID, "", "", "", 0)

\* the types docLoadHandler listens to
EventTypes ==
  {"keydown", "mousedown", "mouseup", "click", "wheel",
   "touchstart", "touchmove", "touchend"}

\* A <meta> element: its name and content attributes
Meta(name, content) == [name |-> name, content |-> content]

\* A document of the book: title is the set of the tokens the lower-case
\* form of its title includes; URL is the set of the tokens the URL includes
\* as it is written, no case folded ("^.xhtml" when it begins with .xhtml);
\* metas its <meta> elements, headStyles the number of <style> elements in
\* its head, body the children of its body; xhtml: it was parsed as
\* application/xhtml+xml; foreign: it is the document of an iframe, whose
\* elements belong to the iframe's window
Document(title, url, metas, xhtml, foreign, hasBody, hasHead, body) ==
  [title |-> title, URL |-> url, metas |-> metas,
   xhtml |-> xhtml, foreign |-> foreign,
   hasBody |-> hasBody, hasHead |-> hasHead, headStyles |-> 0, body |-> body,
   isEventListenersAdded |-> FALSE,
   listeners |-> [t \in EventTypes |-> 0]]

\* element.tagName: upper case in an HTML document, as written in XHTML
tagName(doc, e) ==
  IF doc.xhtml THEN e.tag
  ELSE [style |-> "STYLE", p |-> "P", div |-> "DIV", img |-> "IMG"][e.tag]

\* text.toLowerCase().includes('cover') for the texts of the model
IncludesCover(text) ==
  text \in {"cover", COVER_ID, "Book cover image", "Book Cover",
            "They ran to discover it."}

\* the serialisation of the element includes 'cover'
HtmlIncludesCover(e) ==
  \/ IncludesCover(e.id) \/ IncludesCover(e.class)
  \/ IncludesCover(e.alt) \/ IncludesCover(e.text)
  \/ e.imgs > 0
  \/ e.id = COVER_ID

Count(seq, Test(_)) == Cardinality({i \in 1..Len(seq) : Test(seq[i])})

IsInjected(e) == e.id = COVER_ID
IsStyle(e) == e.tag = "style"
NotInjected(e) == ~IsInjected(e)

\* the elements of the document with id 'booktalk-injected-cover'
Covers(doc) == Count(doc.body, IsInjected)

\* doc.querySelector('meta[name="..."]') !== null
HasMeta(doc, name) == \E m \in doc.metas : m.name = name

\* doc.querySelector('meta[name="..."][content="..."]') !== null
HasMetaContent(doc, name, content) == Meta(name, content) \in doc.metas

\* lines 289-296
isLikelyCoverPage(doc) ==
  \/ Includes(doc.title, "cover")
  \/ Includes(doc.title, "title")
  \/ Includes(doc.URL, "cover") \/ Includes(doc.URL, "^.xhtml") \/ Includes(doc.URL, "^.html")
  \/ (doc.hasBody /\ \E i \in 1..Len(doc.body) : HtmlIncludesCover(doc.body[i]))
  \/ HasMeta(doc, "cover")
  \/ (doc.hasBody /\ Len(doc.body) = 0)
  \/ (doc.hasBody /\ Len(doc.body) = 1)

\* what a call leaves: the ref, the document, whether it appended a container
Left(ref, doc, appended) == [ref |-> ref, doc |-> doc, appended |-> appended]

\* a mutant: the covers injected before are not removed
injectCoverImage_KeepExisting(ref, blob, doc, forceCover) ==
  IF ref /\ ~forceCover THEN Left(ref, doc, FALSE)
  ELSE IF ~blob THEN Left(ref, doc, FALSE)
  ELSE IF ~((isLikelyCoverPage(doc) \/ forceCover) /\ doc.hasBody) THEN Left(ref, doc, FALSE)
  ELSE Left(TRUE, [doc EXCEPT !.body = Append(@, E_injected)], TRUE)

\* injectCoverImage(doc, forceCover) of a viewer whose coverInjectedRef.current
\* is ref and whose book has a cover blob or not
injectCoverImage(ref, blob, doc, forceCover) ==
  IF ref /\ ~forceCover THEN Left(ref, doc, FALSE)
  ELSE IF ~blob THEN Left(ref, doc, FALSE)
  ELSE IF ~((isLikelyCoverPage(doc) \/ forceCover) /\ doc.hasBody) THEN Left(ref, doc, FALSE)
  ELSE LET rest == SelectSeq(doc.body, NotInjected)
           styles == doc.headStyles + Count(rest, IsStyle)
       IN  IF isLikelyCoverPage(doc)
              /\ (Len(rest) = 0 \/ (Len(rest) = 1 /\ tagName(doc, rest[1]) = "STYLE"))
             THEN IF styles > 0 /\ ~doc.hasHead
                    \* doc.head.appendChild throws after the body was cleared
                    THEN Left(ref, [doc EXCEPT !.body = <<>>], FALSE)
                    ELSE Left(TRUE, [doc EXCEPT !.body = <<E_injected>>,
                                                !.headStyles = @ + styles], TRUE)
             ELSE Left(TRUE, [doc EXCEPT !.body = Append(rest, E_injected)], TRUE)

\* the first element of seq that passes the test, 0 when there is none
First(seq, Test(_)) ==
  IF \E i \in 1..Len(seq) : Test(seq[i])
    THEN CHOOSE i \in 1..Len(seq) : Test(seq[i]) /\ \A j \in 1..(i - 1) : ~Test(seq[j])
    ELSE 0

HasClassCover(e) == e.class = "cover"
HasIdCover(e) == e.id = "cover"
IsDivIdCover(e) == e.tag = "div" /\ e.id = "cover"

\* 'img[alt="Book cover image"]': the element is one or holds one
HasCoverImg(e) == (e.tag = "img" /\ e.alt = "Book cover image") \/ e.imgs > 0

\* the first pass of fixCoverImages (lines 451-461): the element a selector
\* finds is kept when it is an instance of the HTMLImageElement of the
\* handler's window, which an element of an iframe's document is not
coverImgFound(doc) == First(doc.body, HasCoverImg) # 0 /\ ~doc.foreign

\* fixCoverImages(doc), lines 380-589, on documents without SVG images
fixCoverImages(ref, blob, doc) ==
  LET l == injectCoverImage(ref, blob, doc, FALSE)
      d == l.doc
      likely == \/ Includes(d.title, "cover") \/ Includes(d.title, "title")
                \/ Includes(d.URL, "cover") \/ Includes(d.URL, "title")
                \/ HasMetaContent(d, "calibre:cover", "true")
      \* '.cover' || '#cover' (lines 416-418)
      cover == IF First(d.body, HasClassCover) # 0 THEN First(d.body, HasClassCover)
               ELSE First(d.body, HasIdCover)
      \* 'div[id="cover"]', '.cover', 'body > div:first-child' (lines 541-557)
      first == IF First(d.body, IsDivIdCover) # 0 THEN First(d.body, IsDivIdCover)
               ELSE IF First(d.body, HasClassCover) # 0 THEN First(d.body, HasClassCover)
               ELSE IF Len(d.body) > 0 /\ d.body[1].tag = "div" THEN 1 ELSE 0
  IN  IF likely /\ blob /\ d.hasBody
        THEN IF cover = 0
               THEN [l EXCEPT !.doc.body = SelectSeq(d.body, IsStyle) \o <<E_img>>]
               ELSE [l EXCEPT !.doc.body[cover].imgs = @ + 1]
      ELSE IF blob /\ d.hasBody /\ ~coverImgFound(d)
        THEN IF first = 0
               THEN [l EXCEPT !.doc.body = <<E_img>> \o d.body]
               ELSE [l EXCEPT !.doc.body[first].imgs = @ + 1]
      ELSE l

\* lines 610-620
addListeners(doc) ==
  IF ~doc.isEventListenersAdded
    THEN [doc EXCEPT !.isEventListenersAdded = TRUE,
                     !.listeners = [t \in EventTypes |-> @[t] + 1]]
    ELSE doc

\* getViewSettings(bookKey): the view settings the reader store holds for the
\* viewer's book, or null
NoSettings == [null |-> TRUE, writingMode |-> "", vertical |-> FALSE, rtl |-> FALSE]
ViewSettings(writingMode) ==
  [null |-> FALSE, writingMode |-> writingMode, vertical |-> FALSE, rtl |-> FALSE]

\* writingDir of line 601: undefined when the view has no renderer.setStyles
\* and getDirection is not called, else what getDirection(doc) returns,
\* unless it throws
NoDir == [undefined |-> TRUE, throws |-> FALSE, vertical |-> FALSE, rtl |-> FALSE]
WritingDir(vertical, rtl) ==
  [undefined |-> FALSE, throws |-> FALSE, vertical |-> vertical, rtl |-> rtl]
DirThrows == [undefined |-> TRUE, throws |-> TRUE, vertical |-> FALSE, rtl |-> FALSE]

\* viewSettings.writingMode.includes(part)
ModeIncludes(writingMode, part) ==
  CASE part = "vertical" -> writingMode \in {"vertical-rl", "vertical-lr"}
    [] part = "rl" -> writingMode \in {"vertical-rl", "horizontal-rl"}
    [] OTHER -> FALSE

\* lines 603-605, on the object getViewSettings returned
updateViewSettings(viewSettings, writingDir) ==
  [viewSettings EXCEPT
     !.vertical = \/ (~writingDir.undefined /\ writingDir.vertical)
                  \/ ModeIncludes(viewSettings.writingMode, "vertical"),
     !.rtl = \/ (~writingDir.undefined /\ writingDir.rtl)
             \/ ModeIncludes(viewSettings.writingMode, "rl")]

\* the calls of lines 606 and 608, neither inside a try block
Throwers == {"setViewSettings", "mountAdditionalFonts"}

\* docLoadHandler(event) of a viewer, lines 591-622, for an event whose
\* detail.doc is doc.  addXLinkNamespace (line 596) catches what it throws
\* and sets namespace attributes only.  viewSettings: what
\* getViewSettings(bookKey) returns, the object of the store or null;
\* thrower: the call of Throwers that throws in this run, "" when none does.
\* A handler that throws ends there: line 601 when getDirection throws, line
\* 603 with a TypeError when getViewSettings returned null.  It leaves the
\* ref, the document, the settings of the store, and whether it threw
docLoadHandler(ref, blob, doc, viewSettings, writingDir, thrower) ==
  LET l == fixCoverImages(ref, blob, doc)
      vs == updateViewSettings(viewSettings, writingDir)
      Loaded(d, settings, threw) ==
        [ref |-> l.ref, doc |-> d, viewSettings |-> settings, threw |-> threw]
  IN  IF writingDir.throws \/ viewSettings.null
        THEN Loaded(l.doc, viewSettings, TRUE)
      ELSE IF thrower \in Throwers
        THEN Loaded(l.doc, vs, TRUE)
      ELSE Loaded(addListeners(l.doc), vs, FALSE)

\* the documents a book is made of.  Sections of an EPUB are XHTML shown in
\* iframes: a cover page with an empty body, a page whose body is a cover
\* division and whose meta calibre:cover says true, chapters with text,
\* one whose meta calibre:cover says false, one with the word 'discover', a
\* chapter that opens with a division of class cover, one that opens with a
\* photo, a document without head whose body is a style.  HTML documents: a
\* page whose body is a style, shown in an iframe, and a title page and a
\* chapter that opens with a division, of the handler's own window.  And a
\* document without body.
Documents ==
  {Document({"cover"}, {"cover"}, {}, TRUE, TRUE, TRUE, TRUE, <<>>),
   Document({"cover"}, {}, {Meta("calibre:cover", "true")}, TRUE, TRUE, TRUE, TRUE,
            <<E_cover>>),
   Document({}, {}, {}, TRUE, TRUE, TRUE, TRUE, <<E_discover, E_p>>),
   Document({}, {}, {}, TRUE, TRUE, TRUE, TRUE, <<E_classCover, E_p>>),
   Document({}, {}, {}, TRUE, TRUE, TRUE, TRUE, <<E_photo, E_p>>),
   Document({}, {}, {Meta("calibre:cover", "false")}, TRUE, TRUE, TRUE, TRUE,
            <<E_p, E_p>>),
   Document({}, {}, {}, TRUE, TRUE, TRUE, FALSE, <<E_style>>),
   Document({}, {}, {Meta("cover", "cover-image")}, FALSE, TRUE, TRUE, TRUE,
            <<E_style>>),
   Document({"title"}, {"title"}, {}, FALSE, FALSE, TRUE, TRUE, <<E_p, E_p>>),
   Document({}, {}, {}, FALSE, FALSE, TRUE, TRUE, <<E_div, E_p>>),
   Document({}, {}, {}, TRUE, TRUE, FALSE, TRUE, <<>>)}

\* what docRelocateHandler called: prev and next how many times, goTo on the
\* views of which keys and with what
Calls(prev, next, goTo) == [prev |-> prev, next |-> next, goTo |-> goTo]

\* the renderer of a view, or that viewRef.current has none
Renderer(present, start, end, viewSize) ==
  [present |-> present, start |-> start, end |-> end, viewSize |-> viewSize]

\* what getParallels(bookKey) returns: null or a set of keys
Parallels(null, keys) == [null |-> null, keys |-> keys]

\* a mutant: the view of the handler's own key is synchronized too
docRelocateHandler_NoFilter(bookKey, detail, renderer, continuousScroll, parallels, views) ==
  IF detail.reason # "scroll" /\ detail.reason # "page" THEN Calls(0, 0, {})
  ELSE LET turn == IF detail.reason = "scroll" /\ renderer.present /\ continuousScroll
                     THEN IF renderer.start <= 0 THEN "prev"
                          ELSE IF renderer.end + 1 >= renderer.viewSize THEN "next"
                          ELSE ""
                     ELSE ""
           synced == IF ~parallels.null /\ Cardinality(parallels.keys) > 0
                       THEN {key \in parallels.keys : key \in views}
                       ELSE {}
       IN  Calls(IF turn = "prev" THEN 1 ELSE 0, IF turn = "next" THEN 1 ELSE 0,
                 {[key |-> key, index |-> detail.index, anchor |-> detail.fraction] :
                    key \in synced})

\* docRelocateHandler(event) of the viewer of bookKey, lines 624-651; views:
\* the keys whose view has a renderer with goTo
docRelocateHandler(bookKey, detail, renderer, continuousScroll, parallels, views) ==
  IF detail.reason # "scroll" /\ detail.reason # "page" THEN Calls(0, 0, {})
  ELSE LET turn == IF detail.reason = "scroll" /\ renderer.present /\ continuousScroll
                     THEN IF renderer.start <= 0 THEN "prev"
                          ELSE IF renderer.end + 1 >= renderer.viewSize THEN "next"
                          ELSE ""
                     ELSE ""
           synced == IF ~parallels.null /\ Cardinality(parallels.keys) > 0
                       THEN {key \in parallels.keys : key # bookKey /\ key \in views}
                       ELSE {}
       IN  Calls(IF turn = "prev" THEN 1 ELSE 0, IF turn = "next" THEN 1 ELSE 0,
                 {[key |-> key, index |-> detail.index, anchor |-> detail.fraction] :
                    key \in synced})

\* the reasons a renderer gives for a relocation
Reasons == {"scroll", "page", "selection", "navigation"}

\* what viewRef.current?.renderer is at an event: missing, or scrolled
\* before the start, to the start, inside, one short of the end, to the end,
\* or showing all of a short section
Renderers ==
  {Renderer(FALSE, 0, 0, 0), Renderer(TRUE, -1, 5, 10), Renderer(TRUE, 0, 5, 10),
   Renderer(TRUE, 3, 5, 10), Renderer(TRUE, 3, 9, 10), Renderer(TRUE, 3, 10, 10),
   Renderer(TRUE, 0, 10, 10)}

\* no relocate event yet
NoRelocate ==
  [bookKey |-> 0, detail |-> [reason |-> "", index |-> 0, fraction |-> 0],
   renderer |-> Renderer(FALSE, 0, 0, 0), calls |-> Calls(0, 0, {})]

\* A function that can be assigned to window.fetch or to
\* XMLHttpRequest.prototype.send is the sequence of the wrappers put around
\* the browser's own function, the outermost last; <<>> is the browser's own.
\* A wrapper is named by the script that made it: <<viewer, mount>>.
Native == <<>>

\* the window: its fetch, XMLHttpRequest.prototype.send, and the patch
\* scripts in document.head
WindowStart == [fetch |-> Native, send |-> Native, scripts |-> {}]

\* document.head.appendChild(script) runs the script (lines 673-761): send
\* and fetch are replaced by functions that call the ones found
appendScript(w, script) ==
  [w EXCEPT !.scripts = @ \cup {script},
            !.send = Append(@, script),
            !.fetch = Append(@, script)]

\* the cleanup of the effect (lines 763-765): document.head.removeChild(script)
removeScript(w, script) == [w EXCEPT !.scripts = @ \ {script}]

\* a viewer that was never mounted
NoViewer == [mounted |-> FALSE, mounts |-> 0]

\* no call of injectCoverImage yet
NoInject == [doc |-> 0, forceCover |-> FALSE, injectedBefore |-> FALSE, changed |-> FALSE]

\* A viewer: whether its book has a cover blob, coverInjectedRef.current, its
\* documents, the load events it got, the two timers of openBook still to
\* fire; loadsOf: the load events each document got; injected: a call of
\* injectCoverImage has appended a container; inject: the last call of
\* injectCoverImage, and whether it changed a document; viewSettings: what
\* the reader store holds for the viewer's book, null before it is set
PageStart ==
  [blob |-> FALSE, coverInjectedRef |-> FALSE, docs |-> <<>>,
   loads |-> 0, timers |-> 2, loadsOf |-> <<>>, injected |-> FALSE,
   inject |-> NoInject, relocate |-> NoRelocate,
   viewSettings |-> NoSettings,
   continuousScroll |-> FALSE, parallels |-> Parallels(TRUE, {}), views |-> {},
   window |-> WindowStart, viewers |-> [v \in 1..MaxViewers |-> NoViewer],
   cleanups |-> 0]

----------------------------------------------------------------------------
(* State machine *)

NoCall ==
  [op |-> "none", path |-> S_empty, base |-> "", arg |-> Undefined,
   status |-> "none", value |-> Undefined, raised |-> FALSE,
   invoked |-> <<>>, calls |-> 0, changed |-> FALSE, newDirs |-> {},
   repeat |-> FALSE]

\* the books directory exists from start-up, and so does the picked file
InitStore ==
  (<<BaseDirectory.AppData, LOCAL_BOOKS_SUBDIR>> :> DirEntry)
    @@ (<<NoBase, S_picked>> :> FileEntry(<<80, 75>>))

Init ==
  /\ store = InitStore
  /\ written = <<>>
  /\ created = {}
  /\ last = NoCall
  /\ app = AppStart("tauri")
  /\ os = OsStart(TRUE, TRUE, {}, "macos")
  /\ home = HomeStart
  /\ page = PageStart

\* one backend call: the store changes as the operation says, the ghosts follow
Call(op, path, base, arg, out) ==
  LET new == DOMAIN out.store \ DOMAIN store
      keep == DOMAIN written \cap DOMAIN store \cap DOMAIN out.store
      kept == [l \in keep |->
                 IF out.store[l] = store[l] THEN written[l]
                 ELSE [written[l] EXCEPT !.intact = FALSE]]
  IN  /\ Cardinality(created \cup new) <= MaxEntries
      /\ store' = out.store
      /\ created' = created \cup new
      /\ written' = IF op = "writeFile" /\ out.status = "fulfilled"
                      THEN Put(kept, Target(path, base), [value |-> arg, intact |-> TRUE])
                      ELSE kept
      /\ last' = [op |-> op, path |-> path, base |-> base, arg |-> arg,
                  status |-> out.status, value |-> out.value,
                  raised |-> out.raised, invoked |-> out.invoked, calls |-> out.calls,
                  changed |-> out.store # store,
                  newDirs |-> {l \in DOMAIN out.store : IsDir(out.store, l)}
                                \ {l \in DOMAIN store : IsDir(store, l)},
                  repeat |-> /\ op = "createDir" /\ last.status = "fulfilled"
                             /\ last.op = op /\ last.path = path
                             /\ last.base = base /\ last.arg = arg]
      /\ UNCHANGED <<app, os, ui>>

Exists(path, base) ==
  Call("exists", path, base, Undefined, fs_exists(store, path, base))

ReadFile(path, base, mode) ==
  Call("readFile", path, base, Mode(mode), fs_readFile(store, path, base, mode))

WriteFile(path, base, content) ==
  Call("writeFile", path, base, content, fs_writeFile(store, path, base, content))

RemoveFile(path, base) ==
  Call("removeFile", path, base, Undefined, fs_removeFile(store, path, base))

CreateDir(path, base, recursive) ==
  Call("createDir", path, base, Bool(recursive), fs_createDir(store, path, base, recursive))

RemoveDir(path, base, recursive) ==
  Call("removeDir", path, base, Bool(recursive), fs_removeDir(store, path, base, recursive))

ReadDir(path, base) ==
  \E order \in Orderings(Children(store, Target(path, base)[1], Target(path, base)[2])) :
    Call("readDir", path, base, Undefined, fs_readDir(store, path, base, order))

CopyFile(srcPath, dstPath, base) ==
  Call("copyFile", dstPath, base, Str(srcPath), fs_copyFile(store, srcPath, dstPath, base))

\* internals: whether the window carries the host shell's internals
GetURL(path, internals) ==
  Call("getURL", path, "", Bool(internals), fs_getURL(store, path, internals))

GetBlobURL(path, base) ==
  Call("getBlobURL", path, base, Undefined, fs_getBlobURL(store, path, base))

\* NativeAppService.resolvePath
ResolvePath(fp, base) ==
  LET r == resolvePath(fp, base) IN
  /\ last' = [op |-> "resolvePath", path |-> fp, base |-> base, arg |-> Undefined,
              status |-> IF "baseDir" \in DOMAIN r THEN "returned" ELSE "threw",
              value |-> Location(r), raised |-> FALSE,
              invoked |-> <<>>, calls |-> 0, changed |-> FALSE, newDirs |-> {},
   repeat |-> FALSE]
  /\ UNCHANGED <<store, written, created, app, os, ui>>

Next ==
  \E rq \in Requests :
    \/ Exists(rq[1], rq[2])
    \/ \E mode \in {"text", "binary"} : ReadFile(rq[1], rq[2], mode)
    \/ \E content \in Contents : WriteFile(rq[1], rq[2], content)
    \/ RemoveFile(rq[1], rq[2])
    \/ \E recursive \in BOOLEAN : CreateDir(rq[1], rq[2], recursive)
    \/ \E recursive \in BOOLEAN : RemoveDir(rq[1], rq[2], recursive)
    \/ ReadDir(rq[1], rq[2])
    \/ \E srcPath \in SrcPaths : CopyFile(srcPath, rq[1], rq[2])
    \/ \E path \in {rq[1], S_remote}, internals \in BOOLEAN : GetURL(path, internals)
    \/ GetBlobURL(rq[1], rq[2])

Spec == Init /\ [][Next]_vars

\* resolutions interleaved with backend operations
NextResolve ==
  \/ \E fp \in ResolvePaths, base \in ResolveBases : ResolvePath(fp, base)
  \/ \E path \in QuietPaths, base \in QuietBases :
       \/ Exists(path, base)
       \/ WriteFile(path, base, Str(ConfigText(INIT_BOOK_CONFIG)))
       \/ RemoveFile(path, base)

SpecResolve == Init /\ [][NextResolve]_vars

----------------------------------------------------------------------------
(* getAppService calls, interleaved at their awaits *)

backend == <<store, written, created, last>>

InitEnv ==
  /\ store = InitStore
  /\ written = <<>>
  /\ created = {}
  /\ last = NoCall
  /\ app \in {AppStart(platform) : platform \in {"tauri", "web"}}
  /\ os = OsStart(TRUE, TRUE, {}, "macos")
  /\ home = HomeStart
  /\ page = PageStart

\* a caller calls environmentConfig.getAppService(); the calls are numbered in
\* the order they are made
GetAppService(c) ==
  /\ app.calls[c].pc = "idle"
  /\ IF c = 1 THEN TRUE ELSE app.calls[c - 1].pc # "idle"
  /\ app' = getAppService(app, c)
  /\ UNCHANGED <<backend, os, ui>>

\* the service constructed and stored by call c, which then awaits its loadSettings
Constructed(a, c, kind, pc) ==
  At([a EXCEPT !.made = @ + 1, !.built = Append(@, kind)],
     c, pc, a.calls[c].stage, a.made + 1)

\* await import('@/services/nativeAppService') settles; then the instance is
\* constructed and stored, and loadSettings starts
NativeImport(c, ok) ==
  /\ app.calls[c].pc = "n_import"
  /\ app' = IF ok
              THEN [Constructed(app, c, "native", "n_load")
                      EXCEPT !.nativeAppService = app.made + 1]
              ELSE nativeFailed(app, c)
  /\ UNCHANGED <<backend, os, ui>>

\* await nativeAppService.loadSettings() settles
NativeLoad(c, ok) ==
  /\ app.calls[c].pc = "n_load"
  /\ app' = IF ok
              THEN Done([app EXCEPT !.loaded = @ \cup {app.calls[c].inst}],
                        c, "native", app.nativeAppService)
              ELSE nativeFailed([app EXCEPT !.broken = @ \cup {app.calls[c].inst}], c)
  /\ UNCHANGED <<backend, os, ui>>

\* await import('@/services/webAppService') settles
WebImport(c, ok) ==
  /\ app.calls[c].pc = "w_import"
  /\ app' = IF ok
              THEN [Constructed(app, c, "web", "w_load")
                      EXCEPT !.webAppService = app.made + 1]
              ELSE webFailed(app, c)
  /\ UNCHANGED <<backend, os, ui>>

\* await webAppService.loadSettings() settles
WebLoad(c, ok) ==
  /\ app.calls[c].pc = "w_load"
  /\ app' = IF ok
              THEN Done([app EXCEPT !.loaded = @ \cup {app.calls[c].inst}],
                        c, "web", app.webAppService)
              ELSE webFailed([app EXCEPT !.broken = @ \cup {app.calls[c].inst}], c)
  /\ UNCHANGED <<backend, os, ui>>

\* the rejection of getNativeAppService() reaches the await of line 60: the
\* catch block of getAppService runs and reads webAppService as it is now
CatchGetAppService(c) ==
  /\ app.calls[c].pc = "caught"
  /\ app' = catchGetAppService(app, c)
  /\ UNCHANGED <<backend, os, ui>>

NextEnv ==
  \E c \in 1..MaxCalls :
    \/ GetAppService(c)
    \/ CatchGetAppService(c)
    \/ \E ok \in BOOLEAN : NativeImport(c, ok)
    \/ \E ok \in BOOLEAN : NativeLoad(c, ok)
    \/ \E ok \in BOOLEAN : WebImport(c, ok)
    \/ \E ok \in BOOLEAN : WebLoad(c, ok)

SpecEnv == InitEnv /\ [][NextEnv]_vars

----------------------------------------------------------------------------
(* Reads of the platform kind while what the detection sees changes *)

InitOS ==
  /\ store = InitStore
  /\ written = <<>>
  /\ created = {}
  /\ last = NoCall
  /\ home = HomeStart
  /\ page = PageStart
  /\ app = AppStart("tauri")
  /\ os \in {OsStart(isTauri, hasNavigator, userAgent, osType) :
               isTauri \in BOOLEAN, hasNavigator \in BOOLEAN,
               userAgent \in UserAgents, osType \in OSTypes}

\* a getter that reads the platform kind once: isMobile, isAndroidApp, ...
IsMobile ==
  /\ os.reads < MaxReads
  /\ os' = isMobile(os).os
  /\ UNCHANGED <<backend, app, ui>>

\* a getter that reads it again unless the first read says 'ios': hasWindow, ...
HasWindow ==
  /\ os.reads + 2 <= MaxReads
  /\ LET r1 == getOS_TYPE(os)
         r2 == getOS_TYPE(r1.os)
     IN  os' = IF r1.value = "ios"
                 THEN [r1.os EXCEPT !.reads = @ + 1, !.read = r1.value,
                                    !.fresh = getOSType(os)]
                 ELSE [r2.os EXCEPT !.reads = @ + 2, !.read = r2.value,
                                    !.fresh = getOSType(os)]
  /\ UNCHANGED <<backend, app, ui>>

\* the window's user agent or the answer of the host's osType() changes
EnvChange(hasNavigator, userAgent, osType) ==
  /\ <<hasNavigator, userAgent, osType>> # <<os.hasNavigator, os.userAgent, os.osType>>
  /\ os' = [os EXCEPT !.hasNavigator = hasNavigator, !.userAgent = userAgent,
                      !.osType = osType]
  /\ UNCHANGED <<backend, app, ui>>

NextOS ==
  \/ IsMobile
  \/ HasWindow
  \/ \E hasNavigator \in BOOLEAN, userAgent \in UserAgents, osType \in OSTypes :
       EnvChange(hasNavigator, userAgent, osType)

SpecOS == InitOS /\ [][NextOS]_vars

----------------------------------------------------------------------------
(* URL operations over a backend that stores a book's cover *)

NextURL ==
  \/ \E path \in URLPaths, internals \in BOOLEAN : GetURL(path, internals)
  \/ \E path \in URLPaths, base \in BlobBases : GetBlobURL(path, base)
  \/ \E b \in Books, base \in BlobBases :
       \/ CreateDir(getDir(b), base, TRUE)
       \/ \E content \in Contents : WriteFile(getCoverFilename(b), base, content)
       \/ RemoveFile(getCoverFilename(b), base)

SpecURL == Init /\ [][NextURL]_vars



----------------------------------------------------------------------------
(* The file names of utils/book.ts, for the books of a library *)

\* hashes, titles (one of them "A/B", one empty) and formats of the books
Hashes == {S_abc123, <<"0f3e">>, <<"d41d8cd9">>}
Titles == {<<"Moby Dick">>, <<"A", "B">>, <<"">>, <<"x.y">>}
Library ==
  {[hash |-> h, title |-> t, format |-> f] :
     h \in Hashes, t \in Titles, f \in DOMAIN EXTS}

BookValue(book) == [t |-> "book", v |-> book]

\* a name function was applied to a book and gave this name
Named(op, arg, name) ==
  [NoCall EXCEPT !.op = op, !.arg = arg, !.status = "fulfilled", !.value = Str(name)]

GetDir(book) ==
  /\ last' = Named("getDir", BookValue(book), getDir(book))
  /\ UNCHANGED <<store, written, created, app, os, ui>>

GetLibraryFilename ==
  /\ last' = Named("getLibraryFilename", Undefined, getLibraryFilename)
  /\ UNCHANGED <<store, written, created, app, os, ui>>

GetFilename(book) ==
  /\ last' = Named("getFilename", BookValue(book), getFilename(book))
  /\ UNCHANGED <<store, written, created, app, os, ui>>

GetCoverFilename(book) ==
  /\ last' = Named("getCoverFilename", BookValue(book), getCoverFilename(book))
  /\ UNCHANGED <<store, written, created, app, os, ui>>

GetConfigFilename(book) ==
  /\ last' = Named("getConfigFilename", BookValue(book), getConfigFilename(book))
  /\ UNCHANGED <<store, written, created, app, os, ui>>

NextBook ==
  \/ GetLibraryFilename
  \/ \E book \in Library :
       \/ GetDir(book)
       \/ GetFilename(book)
       \/ GetCoverFilename(book)
       \/ GetConfigFilename(book)

SpecBook == Init /\ [][NextBook]_vars

----------------------------------------------------------------------------
(* Runs of handleFileSelect, with the calls of getAppService they make *)

others == <<store, written, created, last, app, os, page>>

\* the page on a desktop or on a phone of the host shell, or in a browser;
\* nativeAppService.ts is loaded by getNativeAppService only
InitHome ==
  /\ store = InitStore
  /\ written = <<>>
  /\ created = {}
  /\ last = NoCall
  /\ \E platform \in {"tauri", "web"} :
       /\ app = [AppStart(platform) EXCEPT
                  !.calls = [c \in 1..MaxServiceCalls |-> Idle]]
       /\ os \in {OsStart(platform = "tauri", TRUE, {}, osType) :
                    osType \in IF platform = "tauri" THEN {"macos", "android"}
                               ELSE {"macos"}}
  /\ home = HomeStart
  /\ page = PageStart

\* run r is at an await of getAppService whose call has settled: its
\* continuation is a microtask, which runs before the next task
Settled(r) ==
  /\ home.runs[r].pc \in {"service", "message"}
  /\ app.calls[home.runs[r].call].pc = "done"

\* no continuation is waiting: the event loop takes the next task
NoMicrotask == \A r \in 1..MaxRuns : ~Settled(r)

\* the user clicks the button, which is disabled while loading; the run goes
\* up to the await of line 24, the call of getAppService up to its first await
HandleFileSelect(r) ==
  /\ home.runs[r].pc = "idle"
  /\ IF r = 1 THEN TRUE ELSE home.runs[r - 1].pc # "idle"
  /\ ~home.loading
  /\ NoMicrotask
  /\ LET c == NextCall(app)
     IN  /\ c <= MaxServiceCalls
         /\ home' = [Awaits(SetState(home, r, TRUE, "Selecting file...", FALSE),
                            r, "service", c)
                       EXCEPT !.runs = [q \in 1..MaxRuns |->
                                          IF q = r \/ @[q].pc \in {"idle", "over"} THEN @[q]
                                          ELSE IF @[q].pc = "done" THEN Over
                                          ELSE [@[q] EXCEPT !.overlapped = TRUE]]]
         /\ app' = getAppService(app, c)
  /\ UNCHANGED <<backend, os, page>>

\* the try block threw: the catch block of lines 88-95 resets the state and
\* calls envConfig.getAppService() again
Throws(h, a, r) ==
  LET c == NextCall(a)
  IN  /\ c <= MaxServiceCalls
      /\ home' = Catch(h, r, c)
      /\ app' = getAppService(a, c)

\* the call of getAppService awaited at line 24 has settled.  Rejected: the
\* catch block.  Resolved: line 30 reads isMobile of the service unless the
\* platform is not Tauri; of a NativeAppService that is a read of the
\* platform kind, of the web service it is what webIsMobile says
ServiceSettles(r, webIsMobile) ==
  /\ home.runs[r].pc = "service"
  /\ app.calls[home.runs[r].call].pc = "done"
  /\ LET ret == app.calls[home.runs[r].call].ret
         a == Taken(app, home.runs[r].call)
         m == isMobile(os)
     IN  IF ret.kind = "error"
           THEN Throws(home, a, r) /\ os' = os
         ELSE IF ~isTauriAppPlatform(app)
           THEN home' = Goto(home, r, "selectFilesWeb") /\ app' = a /\ os' = os
         ELSE IF ret.kind = "native"
           THEN /\ home' = Goto(home, r, IF m.value THEN "selectFilesWeb"
                                         ELSE "selectFiles")
                /\ os' = m.os
                /\ app' = a
         ELSE /\ home' = Goto(home, r, IF webIsMobile THEN "selectFilesWeb"
                                       ELSE "selectFiles")
              /\ app' = a /\ os' = os
  /\ UNCHANGED <<backend, page>>

\* await appServiceInstance.selectFiles(...) settles with n paths, or throws
SelectFiles(r, ok, n) ==
  /\ home.runs[r].pc = "selectFiles"
  /\ NoMicrotask
  /\ home' = IF ok THEN afterSelect(home, r, n, "selectFiles")
             ELSE Goto(home, r, "selectFilesWeb")
  /\ UNCHANGED others

\* the promise of selectFilesWeb is resolved by the input's onchange with the
\* n files chosen; it is never rejected
SelectFilesWeb(r, n) ==
  /\ home.runs[r].pc = "selectFilesWeb"
  /\ NoMicrotask
  /\ home' = afterSelect(home, r, n, "selectFilesWeb")
  /\ UNCHANGED others

\* await appServiceInstance.loadLibraryBooks() settles
LoadLibraryBooks(r, ok) ==
  /\ home.runs[r].pc = "load"
  /\ NoMicrotask
  /\ LET h == [home EXCEPT !.runs[r].loads = @ + 1]
     IN  IF ok
           THEN /\ home' = Goto(SetState([h EXCEPT !.runs[r].left = h.runs[r].files],
                                         r, TRUE, "Processing book...", FALSE),
                                r, "import")
                /\ app' = app
           ELSE Throws(h, app, r)
  /\ UNCHANGED <<backend, os, page>>

\* await appServiceInstance.importBook(file, libraryBooks) settles for the
\* next file: with the book in the file, with null, or it throws
ImportBook(r, outcome) ==
  /\ home.runs[r].pc = "import"
  /\ NoMicrotask
  /\ LET file == home.runs[r].files - home.runs[r].left + 1
         h == [home EXCEPT !.runs[r].imports = @ + 1, !.runs[r].left = @ - 1,
                           !.runs[r].bookIds =
                              IF outcome = "book" THEN Append(@, FileHash(file)) ELSE @]
     IN  home' = IF h.runs[r].left = 0 THEN afterImports(h, r) ELSE h
  /\ UNCHANGED others

\* await appServiceInstance.saveLibraryBooks(libraryBooks) settles
SaveLibraryBooks(r, ok) ==
  /\ home.runs[r].pc = "save"
  /\ NoMicrotask
  /\ LET h == [home EXCEPT !.runs[r].saves = @ + 1]
     IN  IF ok THEN home' = afterSave(h, r) /\ app' = app
         ELSE Throws(h, app, r)
  /\ UNCHANGED <<backend, os, page>>

\* the call of getAppService awaited at line 95 has settled.  Resolved:
\* showMessage, which of a NativeAppService is an async function and never
\* throws; threw says that the web service's does.  Rejected, or showMessage
\* threw: alert
ShowMessage(r, threw) ==
  /\ home.runs[r].pc = "message"
  /\ app.calls[home.runs[r].call].pc = "done"
  /\ LET ret == app.calls[home.runs[r].call].ret
     IN  /\ threw => ret.kind = "web"
         /\ home' = Completes([home EXCEPT !.runs[r].told =
                                 IF ret.kind = "error" \/ threw THEN "alert"
                                 ELSE "showMessage"], r)
  /\ app' = Taken(app, home.runs[r].call)
  /\ UNCHANGED <<backend, os, page>>

\* the clicks and the settlements of what the runs await, and the steps of
\* the calls of getAppService the runs made
NextHome ==
  \/ \E r \in 1..MaxRuns :
       \/ HandleFileSelect(r)
       \/ \E webIsMobile \in BOOLEAN : ServiceSettles(r, webIsMobile)
       \/ \E ok \in BOOLEAN, n \in 0..MaxFiles : SelectFiles(r, ok, n)
       \/ \E n \in 0..MaxFiles : SelectFilesWeb(r, n)
       \/ \E ok \in BOOLEAN : LoadLibraryBooks(r, ok)
       \/ \E outcome \in {"book", "null", "throws"} : ImportBook(r, outcome)
       \/ \E ok \in BOOLEAN : SaveLibraryBooks(r, ok)
       \/ \E threw \in BOOLEAN : ShowMessage(r, threw)
  \/ \E c \in 1..MaxServiceCalls :
       \/ CatchGetAppService(c)
       \/ \E ok \in BOOLEAN : NativeImport(c, ok)
       \/ \E ok \in BOOLEAN : NativeLoad(c, ok)
       \/ \E ok \in BOOLEAN : WebImport(c, ok)
       \/ \E ok \in BOOLEAN : WebLoad(c, ok)

SpecHome == InitHome /\ [][NextHome]_vars

----------------------------------------------------------------------------
(* A viewer: the load events of its documents and the timers of openBook *)

\* the writing modes of a book's view settings; openBook read the field of
\* the settings before any load event (line 780)
WritingModes == {"horizontal-tb", "vertical-rl"}

InitView ==
  /\ store = InitStore
  /\ written = <<>>
  /\ created = {}
  /\ last = NoCall
  /\ app = AppStart("tauri")
  /\ os = OsStart(TRUE, TRUE, {}, "macos")
  /\ home = HomeStart
  /\ page \in {[PageStart EXCEPT !.blob = blob, !.docs = docs,
                                 !.loadsOf = [d \in 1..MaxDocs |-> 0],
                                 !.viewSettings = viewSettings] :
                 blob \in BOOLEAN, docs \in [1..MaxDocs -> Documents],
                 viewSettings \in {ViewSettings(writingMode) :
                                     writingMode \in WritingModes}}

\* the call of injectCoverImage on document d that left l
Injects(d, forceCover, l) ==
  [doc |-> d, forceCover |-> forceCover, injectedBefore |-> page.injected,
   changed |-> l.doc # page.docs[d]]

\* the view fires 'load' for document d: docLoadHandler, which calls
\* injectCoverImage(doc) first.  found: the reader store still holds the
\* book's view settings, which it drops for good when the book is closed;
\* writingDir and thrower: what the handler's other collaborators do in
\* this run
DocLoad(d, found, writingDir, thrower) ==
  /\ page.loads < MaxLoads
  /\ LET i == injectCoverImage(page.coverInjectedRef, page.blob, page.docs[d], FALSE)
         l == docLoadHandler(page.coverInjectedRef, page.blob, page.docs[d],
                             IF found THEN page.viewSettings ELSE NoSettings,
                             writingDir, thrower)
     IN  page' = [page EXCEPT !.loads = @ + 1,
                              !.loadsOf[d] = @ + 1,
                              !.coverInjectedRef = l.ref,
                              !.docs[d] = l.doc,
                              !.viewSettings = l.viewSettings,
                              !.injected = @ \/ i.appended,
                              !.inject = Injects(d, FALSE, i)]
  /\ UNCHANGED <<backend, app, os, home>>

\* the view fires 'load' with no document in the event's detail
DocLoadNoDoc ==
  /\ page.loads < MaxLoads
  /\ page' = [page EXCEPT !.loads = @ + 1]
  /\ UNCHANGED <<backend, app, os, home>>

\* a timer of openBook fires while the iframe shows document d (lines
\* 812-826): injectCoverImage(iframe.contentDocument, true)
CoverTimer(d) ==
  /\ page.timers > 0
  /\ LET l == injectCoverImage(page.coverInjectedRef, page.blob, page.docs[d], TRUE)
     IN  page' = [page EXCEPT !.timers = @ - 1,
                              !.coverInjectedRef = l.ref,
                              !.docs[d] = l.doc,
                              !.injected = @ \/ l.appended,
                              !.inject = Injects(d, TRUE, l)]
  /\ UNCHANGED <<backend, app, os, home>>

\* a timer of openBook fires before the container holds an iframe
CoverTimerNoIframe ==
  /\ page.timers > 0
  /\ page' = [page EXCEPT !.timers = @ - 1]
  /\ UNCHANGED <<backend, app, os, home>>

\* DocLoad draws the outcome of each call a run of docLoadHandler makes: it
\* calls getViewSettings when line 601 did not throw, and setViewSettings
\* and mountAdditionalFonts when line 603 did not
NextView ==
  \/ \E d \in 1..MaxDocs, writingDir \in {NoDir, WritingDir(FALSE, TRUE), DirThrows} :
       \E found \in IF writingDir.throws THEN {TRUE} ELSE BOOLEAN :
         \E thrower \in IF writingDir.throws \/ ~found THEN {""} ELSE Throwers \cup {""} :
           DocLoad(d, found, writingDir, thrower)
  \/ DocLoadNoDoc
  \/ \E d \in 1..MaxDocs : CoverTimer(d)
  \/ CoverTimerNoIframe

SpecView == InitView /\ [][NextView]_vars

----------------------------------------------------------------------------
(* Relocate events of the renderers of viewers shown side by side *)

\* the stores when the viewers are shown: continuousScroll of the view
\* settings, the parallel views, the keys whose view has a renderer with goTo
InitRelocate ==
  /\ store = InitStore
  /\ written = <<>>
  /\ created = {}
  /\ last = NoCall
  /\ app = AppStart("tauri")
  /\ os = OsStart(TRUE, TRUE, {}, "macos")
  /\ home = HomeStart
  /\ page \in {[PageStart EXCEPT !.continuousScroll = continuousScroll,
                                 !.parallels = parallels, !.views = views] :
                 continuousScroll \in BOOLEAN,
                 parallels \in {Parallels(TRUE, {})}
                                 \cup {Parallels(FALSE, keys) : keys \in SUBSET (1..MaxViewers)},
                 views \in SUBSET (1..MaxViewers)}

\* the renderer of the viewer of bookKey fires 'relocate': docRelocateHandler
DocRelocate(bookKey, detail, renderer) ==
  /\ page' = [page EXCEPT !.relocate =
                [bookKey |-> bookKey, detail |-> detail, renderer |-> renderer,
                 calls |-> docRelocateHandler(bookKey, detail, renderer,
                                              page.continuousScroll, page.parallels,
                                              page.views)]]
  /\ UNCHANGED <<backend, app, os, home>>

NextRelocate ==
  \E bookKey \in 1..MaxViewers, reason \in Reasons, index \in 0..1,
     renderer \in Renderers :
    DocRelocate(bookKey, [reason |-> reason, index |-> index, fraction |-> 1 - index],
                renderer)

SpecRelocate == InitRelocate /\ [][NextRelocate]_vars

----------------------------------------------------------------------------
(* Viewers mounted and unmounted in one window *)

\* React mounts the viewer of key v: its effect of lines 671-766 runs
Mount(v) ==
  /\ ~page.viewers[v].mounted
  /\ page.viewers[v].mounts < MaxMounts
  /\ page' = [page EXCEPT !.viewers[v].mounted = TRUE,
                          !.viewers[v].mounts = @ + 1,
                          !.window = appendScript(@, <<v, page.viewers[v].mounts + 1>>)]
  /\ UNCHANGED <<backend, app, os, home>>

\* React unmounts the viewer of key v: the cleanup of the effect runs
Unmount(v) ==
  /\ page.viewers[v].mounted
  /\ page' = [page EXCEPT !.viewers[v].mounted = FALSE,
                          !.cleanups = @ + 1,
                          !.window = removeScript(@, <<v, page.viewers[v].mounts>>)]
  /\ UNCHANGED <<backend, app, os, home>>

NextPatch ==
  \E v \in 1..MaxViewers :
    \/ Mount(v)
    \/ Unmount(v)

SpecPatch == Init /\ [][NextPatch]_vars

----------------------------------------------------------------------------
(* Claims about the path resolver, checked under SpecResolve *)

Resolved == last.op = "resolvePath"

\* C1: for every path p and every category other than Books (Settings, Data,
\* Cache, Log, None), resolvePath(p, category) returns the relative path p itself.
C1_OtherCategoriesKeepPath ==
  (Resolved /\ last.base \in BaseDirs \ {"Books"}) => last.value.v.fp = last.path

C1_Witness ==
  /\ Resolved
  /\ last.base = "Cache"
  /\ last.path = getConfigFilename([hash |-> S_abc123])
  /\ last.value.v.fp = <<"abc123", "config.json">>

\* C2: for every path p, resolvePath(p, Books) returns the application-data root
\* and the relative path made of the books subdirectory name, "/" and p.
C2_BooksPrefixed ==
  (Resolved /\ last.base = "Books") =>
    LET fp == last.value.v.fp
        n == Len(LOCAL_BOOKS_SUBDIR)
    IN  /\ last.value.v.baseDir = BaseDirectory.AppData
        /\ Len(fp) = n + Len(last.path)
        /\ SubSeq(fp, 1, n) = LOCAL_BOOKS_SUBDIR
        /\ SubSeq(fp, n + 1, Len(fp)) = last.path

C2_Witness ==
  /\ Resolved
  /\ last.base = "Books"
  /\ last.path = <<"abc123", "config.json">>
  /\ last.value.v.fp = <<"local-books", "abc123", "config.json">>
  /\ last.value.v.baseDir = "AppData"

\* C3: resolvePath gives each named category its own root, for every path:
\* Settings the application-config root, Data the application-data root,
\* Cache the application-cache root and Log the application-log root.
C3_RootPerCategory ==
  Resolved =>
    /\ last.base = "Settings" => last.value.v.baseDir = BaseDirectory.AppConfig
    /\ last.base = "Data" => last.value.v.baseDir = BaseDirectory.AppData
    /\ last.base = "Cache" => last.value.v.baseDir = BaseDirectory.AppCache
    /\ last.base = "Log" => last.value.v.baseDir = BaseDirectory.AppLog

C3_Witness ==
  /\ Resolved
  /\ last.base = "Log"
  /\ last.path = S_library_json
  /\ last.value.v.baseDir = "AppLog"

\* C4: resolvePath is total: every call returns a location, and for None and
\* for any value outside the enumerated categories the location is the
\* temporary root with the path unchanged.
C4_TotalWithTempFallback ==
  Resolved =>
    /\ last.status = "returned"
    /\ last.base \notin {"Settings", "Data", "Cache", "Log", "Books"} =>
         /\ last.value.v.baseDir = BaseDirectory.Temp
         /\ last.value.v.fp = last.path

C4_Witness ==
  /\ Resolved
  /\ last.base = "Other"
  /\ last.path = S_absolute
  /\ last.status = "returned"
  /\ last.value.v = [baseDir |-> "Temp", fp |-> S_absolute, base |-> "Other"]

----------------------------------------------------------------------------
(* Claims about the storage backend, checked under Spec *)

NeverWritten(loc) == loc \notin created /\ loc \notin DOMAIN InitStore

WrittenIntact(loc) == loc \in DOMAIN written /\ written[loc].intact

\* two JavaScript values of the same type with the same content
SameValue(a, b) == a.t = b.t /\ a.v = b.v

\* C6: exists never fails: it always settles normally, and when the plugin's
\* existence check raises, it settles with the value false.
C6_ExistsNeverFails ==
  last.op = "exists" =>
    /\ last.status = "fulfilled"
    /\ last.value.t = "boolean"
    /\ last.raised => last.value = Bool(FALSE)

C6_Witness ==
  /\ last.op = "exists"
  /\ last.raised
  /\ last.status = "fulfilled"
  /\ last.value = Bool(FALSE)

\* C7: after writeFile(p, Data, s) with a text s, readFile(p, Data, text)
\* returns exactly s, as long as nothing else changed that location in between.
C7_TextRoundTrip ==
  LET loc == Target(last.path, last.base) IN
  (/\ last.op = "readFile" /\ last.arg = Mode("text") /\ last.base = "Data"
   /\ WrittenIntact(loc) /\ written[loc].value.t = "string")
    => (last.status = "fulfilled" /\ SameValue(last.value, written[loc].value))

C7_Witness ==
  /\ last.op = "readFile" /\ last.arg = Mode("text") /\ last.base = "Data"
  /\ last.path = S_library_json
  /\ WrittenIntact(Target(last.path, last.base))
  /\ last.value = Str(ConfigText(INIT_BOOK_CONFIG))

\* C8: after writeFile of a byte buffer, readFile of the same (path, category)
\* in binary mode returns the same bytes in the same order, as long as nothing
\* else changed that location in between.
C8_BinaryRoundTrip ==
  LET loc == Target(last.path, last.base) IN
  (/\ last.op = "readFile" /\ last.arg = Mode("binary")
   /\ WrittenIntact(loc) /\ written[loc].value.t = "buffer")
    => (last.status = "fulfilled" /\ SameValue(last.value, written[loc].value))

C8_Witness ==
  /\ last.op = "readFile" /\ last.arg = Mode("binary")
  /\ WrittenIntact(Target(last.path, last.base))
  /\ last.value = Buf(<<255, 104>>)

\* C9: exists(p, category) returns false for a location nothing was ever
\* written to, and true after a writeFile to the same (p, category) succeeded
\* and before the entry is removed.
C9_ExistsTracksWrites ==
  LET loc == Target(last.path, last.base) IN
  last.op = "exists" =>
    /\ NeverWritten(loc) => last.value = Bool(FALSE)
    /\ loc \in DOMAIN written => last.value = Bool(TRUE)

C9_Witness ==
  /\ last.op = "exists"
  /\ last.base = "Books"
  /\ Target(last.path, last.base) \in DOMAIN written
  /\ last.value = Bool(TRUE)

\* C10: writing a book's config under Books at "<hash>/config.json" stores the
\* text at the application-data location whose relative path ends with
\* "local-books/<hash>/config.json", and a readFile of the same (path, Books)
\* in text mode that follows returns the exact text written.
C10_BookConfigScenario ==
  \A b \in Books :
    (last.base = "Books" /\ last.path = getConfigFilename(b)) =>
      /\ (last.op = "writeFile" /\ last.status = "fulfilled" /\ last.arg.t = "string") =>
           \E loc \in DOMAIN store :
             /\ loc[1] = "AppData"
             /\ EndsWith(loc[2], <<"local-books">> \o b.hash \o <<"config.json">>)
             /\ store[loc] = FileEntry(Utf8Encode(last.arg.v))
      /\ (/\ last.op = "readFile" /\ last.arg = Mode("text")
          /\ WrittenIntact(Target(last.path, last.base))
          /\ written[Target(last.path, last.base)].value.t = "string") =>
           (last.status = "fulfilled"
              /\ SameValue(last.value, written[Target(last.path, last.base)].value))

C10_Witness ==
  /\ last.op = "readFile" /\ last.arg = Mode("text") /\ last.base = "Books"
  /\ last.path = <<"abc123", "config.json">>
  /\ WrittenIntact(Target(last.path, last.base))
  /\ IsFile(store, <<"AppData", <<"local-books", "abc123", "config.json">>>>)
  /\ last.value = Str(ConfigText(INIT_BOOK_CONFIG))

----------------------------------------------------------------------------
(* Claims about directories, copies and failures, checked under Spec *)

\* C13: a createDir(p, Data, recursive = true) that repeats the call before it,
\* which was fulfilled, is fulfilled too, leaves the storage exactly as the
\* first call left it, and p is then a directory.
C13_CreateDirIdempotent ==
  (last.op = "createDir" /\ last.base = "Data" /\ last.arg.v /\ last.repeat) =>
    /\ last.status = "fulfilled"
    /\ ~last.changed
    /\ IsDir(store, Target(last.path, last.base))

C13_Witness ==
  /\ last.op = "createDir" /\ last.base = "Data" /\ last.arg.v /\ last.repeat
  /\ last.status = "fulfilled"
  /\ Target(last.path, last.base) \in created

\* C14: a readDir of an existing directory is fulfilled with one element per
\* entry of the directory, carrying the entry's name and whether it is a
\* directory; for a directory without entries that is the empty sequence.
C14_ReadDirListsEntries ==
  last.op = "readDir" =>
    LET t == Target(last.path, last.base)
        kids == Children(store, t[1], t[2])
    IN  /\ DirExists(store, t[1], t[2]) => last.status = "fulfilled"
        /\ last.status = "fulfilled" =>
             /\ Len(last.value.v) = Cardinality(kids)
             /\ \A l \in kids :
                  \E i \in 1..Len(last.value.v) :
                    /\ last.value.v[i].path = l[2][Len(l[2])]
                    /\ last.value.v[i].isDir = store[l].isDir
             /\ (kids = {} => last.value.v = <<>>)

C14_Witness ==
  /\ last.op = "readDir" /\ last.status = "fulfilled"
  /\ Target(last.path, last.base) \in created
  /\ last.value.v = <<>>

\* C16: copyFile hands the platform copy the source path exactly as the caller
\* gave it, with no base root for it, and the destination as the resolver
\* gives it (under Books, inside the local-books subdirectory); a fulfilled
\* copy leaves the source's bytes at the resolved destination.
C16_CopyResolvesOnlyDestination ==
  last.op = "copyFile" =>
    LET r == resolvePath(last.path, last.base)
    IN  /\ Len(last.invoked) = 1
        /\ last.invoked[1].prim = "copyFile"
        /\ last.invoked[1].src = last.arg.v
        /\ last.invoked[1].fp = r.fp
        /\ last.invoked[1].root = r.baseDir
        /\ last.base = "Books" => last.invoked[1].fp = Slash(LOCAL_BOOKS_SUBDIR, last.path)
        /\ last.status = "fulfilled" =>
             /\ IsFile(store, <<NoBase, last.arg.v>>)
             /\ store[<<r.baseDir, r.fp>>] = FileEntry(store[<<NoBase, last.arg.v>>].data)

C16_Witness ==
  /\ last.op = "copyFile" /\ last.base = "Books" /\ last.status = "fulfilled"
  /\ last.arg.v = S_picked
  /\ IsFile(store, <<"AppData", <<"local-books", "abc123", "config.json">>>>)

\* C17: writeFile never creates a directory; fulfilled, it leaves exactly the
\* content written at its target, whatever was there; when the parent
\* directory of its target is missing it fails and the storage is as before,
\* with neither the parent nor the file.
C17_WriteCreatesNoDirectory ==
  last.op = "writeFile" =>
    LET t == Target(last.path, last.base)
    IN  /\ last.newDirs = {}
        /\ last.status = "fulfilled" =>
             store[t] = FileEntry(IF last.arg.t = "string" THEN Utf8Encode(last.arg.v)
                                  ELSE last.arg.v)
        /\ ~DirExists(store, t[1], ParentPath(t[2])) =>
             (last.status = "rejected" /\ ~last.changed /\ t \notin DOMAIN store)

C17_Witness ==
  /\ last.op = "writeFile" /\ last.status = "rejected"
  /\ ~Forbidden(last.path)
  /\ ~DirExists(store, Target(last.path, last.base)[1],
                ParentPath(Target(last.path, last.base)[2]))

FailingOps ==
  {"readFile", "writeFile", "removeFile", "createDir", "removeDir", "readDir", "copyFile"}

\* C18: readFile, writeFile, removeFile, createDir, removeDir, readDir and
\* copyFile are rejected whenever the platform primitive they call raises, and
\* a readFile whose target is absent is rejected.
C18_FailuresPropagate ==
  last.op \in FailingOps =>
    /\ last.raised => last.status = "rejected"
    /\ (last.op = "readFile" /\ Target(last.path, last.base) \notin DOMAIN store) =>
         last.status = "rejected"

C18_Witness ==
  /\ last.op = "removeFile" /\ last.raised /\ last.status = "rejected"
  /\ Target(last.path, last.base) \notin DOMAIN store

\* the ten methods of nativeFileSystem
BackendOps == FailingOps \cup {"exists", "getURL", "getBlobURL"}

\* C20: no backend operation calls a platform primitive more than once,
\* whether the primitive raises or not: getURL calls none for a URL and the
\* conversion once for any other path, with the path as given; every other
\* operation calls exactly one primitive, once, with the one location its
\* path resolves to.
C20_NoRetry ==
  last.op \in BackendOps =>
    /\ last.calls <= 1
    /\ Len(last.invoked) = last.calls
    /\ IF last.op = "getURL"
         THEN /\ last.calls = (IF isValidURL(last.path) THEN 0 ELSE 1)
              /\ last.calls = 1 => last.invoked[1].fp = last.path
         ELSE /\ last.calls = 1
              /\ last.invoked[1].fp = resolvePath(last.path, last.base).fp

C20_Witness ==
  /\ last.op = "getBlobURL" /\ last.raised /\ last.status = "rejected"
  /\ last.calls = 1
  /\ last.invoked[1].prim = "readFile"

----------------------------------------------------------------------------
(* Claims about the selection of the backend and the platform kind *)

Returned(c) == app.calls[c].pc = "done" /\ app.calls[c].ret.kind \in {"native", "web"}

\* C11: all the getAppService calls of a process that return a service return
\* a service of one and the same kind.
C11_OneBackendPerProcess ==
  \A c1, c2 \in 1..MaxCalls :
    (Returned(c1) /\ Returned(c2)) => app.calls[c1].ret.kind = app.calls[c2].ret.kind

\* C12: the detection of the platform kind runs at most once in a process,
\* and every read returns the value that first detection gave, whatever a
\* detection at the time of the read would give.
C12_PlatformKindAssignedOnce ==
  /\ os.detections <= 1
  /\ os.reads > 0 =>
       (os.detections = 1 /\ os.cachedOSType = os.first /\ os.read = os.first)

C12_Witness ==
  /\ os.reads >= 2
  /\ os.read = os.first
  /\ os.fresh # os.read

----------------------------------------------------------------------------
(* Claims about the URL operations, checked under SpecURL *)

\* C15: getURL returns a fully-qualified URL as it was given, and for any
\* other path returns what the platform conversion of that path returns.
C15_GetURL ==
  last.op = "getURL" =>
    IF isValidURL(last.path)
      THEN last.status = "fulfilled" /\ SameValue(last.value, Str(last.path))
      ELSE LET conv == plugin_convertFileSrc(store, last.path, last.arg.v)
           IN  /\ last.raised = conv.raised
               /\ SameValue(last.value, conv.value)
               /\ Len(last.invoked) = 1
               /\ last.invoked[1].prim = "convertFileSrc"

C15_Witness ==
  /\ last.op = "getURL" /\ last.status = "fulfilled"
  /\ last.path = <<"abc123", "cover.png">>
  /\ last.value = Str(<<"asset:", "", "localhost", "abc123%2Fcover.png">>)

\* C19: getURL and getBlobURL always complete with a string, also when the
\* platform conversion or the read of the file fails.
C19_URLOperationsNeverFail ==
  last.op \in {"getURL", "getBlobURL"} =>
    (last.status = "fulfilled" /\ last.value.t \in {"string", "objectURL"})

----------------------------------------------------------------------------
(* Claims about the file names, checked under SpecBook *)

\* the name is the directory, a "/" and something after it
InDirectory(name, dir) ==
  Len(name) > Len(dir) /\ SubSeq(name, 1, Len(dir)) = dir

\* C21: the book file, the cover and the config of a book are named inside
\* the book's directory, which is its hash; the cover is "<hash>/cover.png",
\* the config "<hash>/config.json"; the manifest is "library.json", a name
\* without a directory.
C21_FileNamesUnderHash ==
  /\ last.op \in {"getFilename", "getCoverFilename", "getConfigFilename"} =>
       /\ InDirectory(last.value.v, getDir(last.arg.v))
       /\ getDir(last.arg.v) = last.arg.v.hash
       /\ Len(last.value.v) = Len(last.arg.v.hash) + 1
  /\ last.op = "getCoverFilename" =>
       last.value.v = last.arg.v.hash \o <<"cover.png">>
  /\ last.op = "getConfigFilename" =>
       last.value.v = last.arg.v.hash \o <<"config.json">>
  /\ last.op = "getLibraryFilename" => last.value.v = <<"library.json">>

C21_Witness ==
  /\ last.op = "getFilename"
  /\ last.arg.v.title = <<"A", "B">>
  /\ last.value.v = <<"0f3e", "A_B.epub">>

----------------------------------------------------------------------------
(* Claims about getAppService under interleaving and failure, under SpecEnv *)

\* C22: every instance a getAppService call resolves with had completed its
\* loadSettings when the call resolved, and at most one web service is ever
\* constructed.
C22_ResolvedLoadedOneWeb ==
  /\ \A c \in 1..MaxCalls : Returned(c) => app.calls[c].ret.loaded
  /\ Cardinality({i \in 1..Len(app.built) : app.built[i] = "web"}) <= 1

\* C23: no getAppService call resolves with a native instance whose
\* loadSettings had failed before.
C23_BrokenNativeNeverReturned ==
  \A c \in 1..MaxCalls :
    (Returned(c) /\ app.calls[c].ret.kind = "native") => ~app.calls[c].ret.broken

\* C24: on the Tauri platform a call in which the native initialization
\* failed resolves with a web service or is rejected, and a call is rejected
\* only after a web initialization failed in it.
C24_NativeFailureFallsBack ==
  isTauriAppPlatform(app) =>
    \A c \in 1..MaxCalls :
      app.calls[c].pc = "done" =>
        /\ app.calls[c].nfail => app.calls[c].ret.kind \in {"web", "error"}
        /\ app.calls[c].ret.kind = "error" => app.calls[c].wfail >= 1

C24_Witness ==
  /\ isTauriAppPlatform(app)
  /\ \E c \in 1..MaxCalls :
       /\ app.calls[c].pc = "done" /\ app.calls[c].nfail
       /\ app.calls[c].wfail = 0
       /\ app.calls[c].ret.kind = "web" /\ app.calls[c].ret.loaded
  /\ \E c \in 1..MaxCalls :
       /\ app.calls[c].pc = "done" /\ app.calls[c].nfail
       /\ app.calls[c].ret.kind = "error"

----------------------------------------------------------------------------
(* Claims about handleFileSelect, checked under SpecHome *)

Completed(r) == home.runs[r].pc = "done"
Navigated(r) == Len(home.runs[r].navigated) >= 1
EndedIdle(r) == ~home.runs[r].endLoading /\ home.runs[r].endProcessingState = ""
NothingStored(r) ==
  home.runs[r].loads = 0 /\ home.runs[r].imports = 0 /\ home.runs[r].saves = 0

\* C25 as stated: when a run completes, either it called navigateToReader
\* with at least one imported hash or loading is false and processingState is
\* empty, not both; and a run in which no file was selected made no library
\* load, import or save.
C25_EndsNavigatedOrIdle ==
  \A r \in 1..MaxRuns :
    Completed(r) =>
      /\ Navigated(r) # EndedIdle(r)
      /\ home.runs[r].files = 0 => NothingStored(r)

\* C25 amended: a run that completes either called navigateToReader with the
\* hashes it imported, at least one, and did not reset, or its last update
\* set loading to false and processingState to empty; in the second case they
\* still are so when it completes unless another run started in between; and
\* a run in which no file was selected made no library load, import or save.
C25_EndsNavigatedOrReset ==
  \A r \in 1..MaxRuns :
    Completed(r) =>
      /\ Navigated(r) # home.runs[r].reset
      /\ Navigated(r) =>
           (home.runs[r].navigated = home.runs[r].bookIds /\ ~EndedIdle(r))
      /\ (home.runs[r].reset /\ ~home.runs[r].overlapped) => EndedIdle(r)
      /\ home.runs[r].files = 0 => NothingStored(r)

C25_Witness ==
  \E r, q \in 1..MaxRuns :
    /\ Completed(r) /\ home.runs[r].reset /\ home.runs[r].overlapped /\ ~EndedIdle(r)
    /\ Completed(q) /\ Navigated(q) /\ home.runs[q].files = 1
    /\ home.runs[q].navigated = <<S_abc123>>

----------------------------------------------------------------------------
(* Claims about the viewer's documents, checked under SpecView *)

\* C26: whatever calls of injectCoverImage were made, forced or not, every
\* document holds at most one element with id 'booktalk-injected-cover'; and
\* a call that is not forced, made after a call appended a cover container,
\* changes no document.
C26_AtMostOneInjectedCover ==
  /\ \A d \in 1..MaxDocs : Covers(page.docs[d]) <= 1
  /\ (page.inject.doc # 0 /\ ~page.inject.forceCover /\ page.inject.injectedBefore) =>
       ~page.inject.changed

C26_Witness ==
  /\ page.timers = 0
  /\ page.inject.doc # 0 /\ ~page.inject.forceCover /\ page.inject.injectedBefore
  /\ \E d \in 1..MaxDocs : Covers(page.docs[d]) = 1 /\ Len(page.docs[d].body) = 3

\* C27: a document that got load events, however many, has each of the eight
\* input handlers registered exactly once.
C27_ListenersRegisteredOnce ==
  \A d \in 1..MaxDocs :
    page.loadsOf[d] >= 1 =>
      \A t \in EventTypes : page.docs[d].listeners[t] = 1

----------------------------------------------------------------------------
(* Claims about the relocate handler, checked under SpecRelocate *)

Relocated == page.relocate.bookKey # 0

AtBoundary(renderer) ==
  renderer.start <= 0 \/ renderer.end + 1 >= renderer.viewSize

\* C28: for a reason other than 'scroll' and 'page' the relocate handler
\* calls nothing; it calls prev(1) or next(1) only for reason 'scroll' with
\* continuous scroll on and the renderer at its start or end boundary, and
\* never both for one event; and it never calls goTo on the view of its own
\* book key.
C28_RelocateHandler ==
  Relocated =>
    LET e == page.relocate
    IN  /\ e.detail.reason \notin {"scroll", "page"} => e.calls = Calls(0, 0, {})
        /\ (e.calls.prev > 0 \/ e.calls.next > 0) =>
             /\ e.detail.reason = "scroll"
             /\ page.continuousScroll
             /\ e.renderer.present /\ AtBoundary(e.renderer)
        /\ e.calls.prev + e.calls.next <= 1
        /\ \A c \in e.calls.goTo : c.key # e.bookKey

C28_Witness ==
  /\ Relocated
  /\ page.relocate.detail.reason = "scroll"
  /\ page.relocate.renderer = Renderer(TRUE, 3, 9, 10)
  /\ page.relocate.calls.next = 1
  /\ page.relocate.bookKey \in page.parallels.keys
  /\ page.relocate.bookKey \in page.views
  /\ page.relocate.calls.goTo # {}

----------------------------------------------------------------------------
(* Claims about the request patch, checked under SpecPatch *)

\* C29: once every viewer that was mounted has been unmounted and its
\* cleanup has run, window.fetch and XMLHttpRequest.prototype.send are the
\* functions they were before the first mount.
C29_CleanupUndoesPatch ==
  (page.cleanups >= 1 /\ \A v \in 1..MaxViewers : ~page.viewers[v].mounted) =>
    (page.window.fetch = Native /\ page.window.send = Native)

====
